---- MODULE Spec2Model ----
(***************************************************************************)
(* The chat input controller (ChatInputArea) of the web UI as a state      *)
(* machine.  The React state cells and refs of the component are the       *)
(* variables; every event handler, effect and async continuation is one    *)
(* action.  A handler runs to completion on the event loop; an `await`     *)
(* splits it into the part before the call and one continuation per        *)
(* outcome of the call, which run with the values the closure captured.    *)
(***************************************************************************)
EXTENDS Bags, FiniteSets, Integers, Sequences, TLC

(***************************************************************************)
(* Bounds of the model.                                                    *)
(***************************************************************************)
MaxLen == 2          \* longest draft the user types, in characters
MaxBatch == 2        \* most files one picker / paste / drop event carries
MaxPending == 1      \* most async calls (submit, upload, refetch, timer) in flight
MaxItems == 1        \* most pasted-artifact badges kept in the input
MaxDictated == 5     \* longest draft that speech transcriptions build, in characters
MaxRequests == 2     \* most requests of one page (create, delete, session, fetch) in flight

(***************************************************************************)
(* Text.  A string is a sequence of one-character strings.  Null is the    *)
(* JavaScript null / undefined of a string-typed cell: a value that is no  *)
(* text over any alphabet used here.                                       *)
(***************************************************************************)
Null == <<"<null>">>
Chars == {"a", " ", "/"}

RECURSIVE TextsUpTo(_)
TextsUpTo(n) ==
    IF n = 0 THEN {<<>>}
    ELSE LET shorter == TextsUpTo(n - 1)
         IN  shorter \cup {Append(t, c) : t \in {s \in shorter : Len(s) = n - 1}, c \in Chars}

Texts == TextsUpTo(MaxLen)

IsWhitespace(c) == c \in {" ", "\n", "\t"}

RECURSIVE TrimStart(_)
TrimStart(s) ==
    IF s # <<>> /\ IsWhitespace(Head(s)) THEN TrimStart(Tail(s)) ELSE s

RECURSIVE TrimEnd(_)
TrimEnd(s) ==
    IF s # <<>> /\ IsWhitespace(s[Len(s)]) THEN TrimEnd(SubSeq(s, 1, Len(s) - 1)) ELSE s

\* String.prototype.trim
Trim(s) == TrimEnd(TrimStart(s))

\* JavaScript truthiness of a string | null cell
TruthyText(t) == t # Null /\ t # <<>>

\* String.prototype.substring(from, to) for 0 <= from <= to (0-based, to exclusive)
Substring(s, from, to) ==
    LET t == IF to > Len(s) THEN Len(s) ELSE to
    IN  IF from >= t THEN <<>> ELSE SubSeq(s, from + 1, t)

\* `${fullMessage}\n\nContext: "${contextText}"`
ContextPrefix == <<"\n", "\n", "C", "o", "n", "t", "e", "x", "t", ":", " ", "\"">>
WithContext(msg, ctx) == msg \o ContextPrefix \o ctx \o <<"\"">>

(***************************************************************************)
(* Files.  A File is identified for deduplication by the triple            *)
(* (name, size, lastModified); two File objects may carry the same triple. *)
(***************************************************************************)
FileA  == [name |-> "a.txt", size |-> 1, lastModified |-> 1]
FileA2 == [name |-> "a.txt", size |-> 2, lastModified |-> 1]
FileB  == [name |-> "b.txt", size |-> 1, lastModified |-> 1]
FileUniverse == {FileA, FileA2, FileB}

RECURSIVE BatchesUpTo(_)
BatchesUpTo(n) ==
    IF n = 0 THEN {<<>>}
    ELSE LET shorter == BatchesUpTo(n - 1)
         IN  shorter \cup {Append(b, f) : b \in {s \in shorter : Len(s) = n - 1}, f \in FileUniverse}

FileBatches == BatchesUpTo(MaxBatch) \ {<<>>}

\* one file chooser selection comes from one directory: its names differ
PickerBatches ==
    {b \in FileBatches : \A i, j \in 1..Len(b) : i # j => b[i].name # b[j].name}

SameFile(existingFile, newFile) ==
    /\ existingFile.name = newFile.name
    /\ existingFile.size = newFile.size
    /\ existingFile.lastModified = newFile.lastModified

\* Array.from(files).filter(newFile => !selectedFiles.some(existingFile => ...))
NewFiles(files, selected) ==
    SelectSeq(files, LAMBDA newFile :
        ~ \E i \in 1..Len(selected) : SameFile(selected[i], newFile))

(***************************************************************************)
(* Collaborators that live outside the component.                          *)
(***************************************************************************)
\* isLargeText of ./paste: the size threshold that sends a pasted text to the
\* artifact dialog (scaled down to the alphabet used here)
LargeTextThreshold == 2
isLargeText(text) == Len(text) >= LargeTextThreshold

\* detectVariables of promptUtils: the {{name}} placeholders of a template;
\* one placeholder is one symbol of the text
VarToken == "{{x}}"
detectVariables(promptText) == {i \in 1..Len(promptText) : promptText[i] = VarToken}

\* A falsy session id (null, undefined, "") and the ids of existing sessions
NoSession == ""
Sessions == {"s1", "s2"}

\* location.state: {} (no promptText) or { promptText, groupId, groupName }
EmptyState == [promptText |-> Null, groupId |-> "", groupName |-> ""]
RouterStates ==
    { [promptText |-> <<"a">>, groupId |-> "g1", groupName |-> "plain"],
      [promptText |-> <<"a", VarToken>>, groupId |-> "g2", groupName |-> "template"] }

NullGroup == [id |-> "", name |-> "", prompt_text |-> Null]

\* Texts the environment hands over: selection of a follow-up question, its
\* prompt, a clipboard text, a dialog title and an upload URI
SelectionTexts == {<<"q">>}
FollowUpPrompts == {Null, <<"a">>}
ClipboardTexts == {<<"/">>, <<"a", "a">>}
Titles == {"t1"}
Uris == {"u1", "u2"}

(***************************************************************************)
(* State.                                                                  *)
(***************************************************************************)
VARIABLES
    isResponding,         \* useChatContext: the backend is answering
    isCancelling,         \* useChatContext: a cancel is under way
    sessionId,            \* useChatContext: the active session id
    locationState,        \* useLocation().state
    selectedFiles,        \* useState<File[]>
    pastedArtifactItems,  \* useState<PastedArtifactItem[]>
    pendingPasteContent,  \* useState<string | null>
    showArtifactForm,     \* useState(false)
    contextText,          \* useState<string | null>
    inputValue,           \* useState<string>("")
    showPromptsCommand,   \* useState(false)
    showVariableDialog,   \* useState(false)
    pendingPromptGroup,   \* useState<PromptGroup | null>
    prevSessionIdRef,     \* useRef(sessionId)
    isSubmittingEnabled,  \* useMemo value of the last render
    pickerOpen,           \* the browser's file chooser opened by fileInputRef.click()
    pending,              \* bag of the async calls and timers in flight
    op,                   \* the handler (or continuation) that ran last
    out,                  \* the calls it made on collaborators, in order
    promptsPage,          \* PromptsPage: whether it is the route shown, and its useState cells
    projectsPage,         \* ProjectsPage: whether it is the route shown, and its useState cells
    confirmationDialog    \* one ConfirmationDialog: its props, what it rendered, its open state

ctxVars == <<isResponding, isCancelling>>
routeVars == <<sessionId, locationState, prevSessionIdRef>>
fileVars == <<selectedFiles, pickerOpen>>
pasteVars == <<pendingPasteContent, showArtifactForm>>
draftVars == <<inputValue, showPromptsCommand>>
dialogVars == <<showVariableDialog, pendingPromptGroup>>
otherViews == <<projectsPage, confirmationDialog>>

vars == <<isResponding, isCancelling, sessionId, locationState, selectedFiles,
          pastedArtifactItems, pendingPasteContent, showArtifactForm, contextText,
          inputValue, showPromptsCommand, showVariableDialog, pendingPromptGroup,
          prevSessionIdRef, isSubmittingEnabled, pickerOpen, pending, op, out, promptsPage,
          projectsPage, confirmationDialog>>

(***************************************************************************)
(* Calls on collaborators, recorded in out.                                *)
(***************************************************************************)
SubmitCall(files, message) == [kind |-> "handleSubmit", files |-> files, message |-> message]
UploadCall(sid, title, content, mimeType) ==
    [kind |-> "uploadArtifactFile", sid |-> sid, title |-> title, content |-> content,
     mimeType |-> mimeType]
Notification(level) == [kind |-> "addNotification", level |-> level]
RefetchCall == [kind |-> "artifactsRefetch"]
NavigateCall(to, state) == [kind |-> "navigate", to |-> to, state |-> state]
PreventDefault == [kind |-> "preventDefault"]
ScrollToBottom == [kind |-> "scrollToBottom"]

Calls(o, k) == SelectSeq(o, LAMBDA c : c.kind = k)

\* The value of op: the handler's name and one fact about its input or about
\* the state it started in
Op(name, arg) == [name |-> name, arg |-> arg]

\* An async call or timer in flight, with what its continuation has captured
Async(kind, sid, title, prompt, text) ==
    [kind |-> kind, sid |-> sid, title |-> title, prompt |-> prompt, text |-> text]
InFlight(kind) == {p \in BagToSet(pending) : p.kind = kind}
CanStart == BagCardinality(pending) < MaxPending
Start(p) == pending (+) SetToBag({p})
Finish(p) == pending (-) SetToBag({p})

(***************************************************************************)
(* Render: the useMemo of isSubmittingEnabled.  The JavaScript value of    *)
(*   !isResponding && (inputValue?.trim() || selectedFiles.length !== 0)   *)
(* is false, the trimmed string, or a boolean.                             *)
(***************************************************************************)
JsBool(b) == [t |-> "boolean", b |-> b, s |-> <<>>]
JsString(s) == [t |-> "string", b |-> FALSE, s |-> s]
Truthy(v) == IF v.t = "boolean" THEN v.b ELSE v.s # <<>>

\* mutant: the draft is tested without trim()
isSubmittingEnabledMemo_untrimmed(responding, value, files) ==
    IF responding THEN JsBool(FALSE)
    ELSE IF value # <<>> THEN JsString(value)
    ELSE JsBool(Len(files) # 0)

\* mutant: the memo does not look at isResponding
isSubmittingEnabledMemo_ignoresResponding(responding, value, files) ==
    IF Trim(value) # <<>> THEN JsString(Trim(value))
    ELSE JsBool(Len(files) # 0)

isSubmittingEnabledMemo(responding, value, files) ==
    IF responding THEN JsBool(FALSE)
    ELSE IF Trim(value) # <<>> THEN JsString(Trim(value))
    ELSE JsBool(Len(files) # 0)

\* A render of ChatInputArea; the pages on other routes and a dialog elsewhere
\* in the tree keep their cells
Render ==
    /\ isSubmittingEnabled' = isSubmittingEnabledMemo(isResponding', inputValue', selectedFiles')
    /\ UNCHANGED <<promptsPage, otherViews>>

(***************************************************************************)
(* The router-state / session-change effect.  It runs after a render in    *)
(* which sessionId or location.state changed.  When it consumes a prompt   *)
(* it replaces location.state, which changes a dependency and runs it a    *)
(* second time.  It works on the record of the cells it reads and writes.  *)
(***************************************************************************)
EffectCells(input, popover, items, context, group, dialog, prev, state) ==
    [inputValue |-> input, showPromptsCommand |-> popover, pastedArtifactItems |-> items,
     contextText |-> context, pendingPromptGroup |-> group, showVariableDialog |-> dialog,
     prevSessionIdRef |-> prev, locationState |-> state]

\* mutant: the first assignment of a session id counts as a change
SessionChanged_onFirstAssignment(prev, sid) == prev # sid

\* prevSessionIdRef.current && prevSessionIdRef.current !== sessionId
SessionChanged(prev, sid) == prev # NoSession /\ prev # sid

\* mutant: the consumed router state is not replaced by an empty one
sessionEffect_keepsState(c, sid) ==
    LET promptText == c.locationState.promptText
        hasVariables == Cardinality(detectVariables(promptText)) > 0
    IN  IF TruthyText(promptText)
        THEN [c EXCEPT
                !.pendingPromptGroup =
                    IF hasVariables
                    THEN [id |-> c.locationState.groupId, name |-> c.locationState.groupName,
                          prompt_text |-> promptText]
                    ELSE @,
                !.showVariableDialog = IF hasVariables THEN TRUE ELSE @,
                !.inputValue = IF hasVariables THEN @ ELSE promptText]
        ELSE [c EXCEPT !.prevSessionIdRef = sid, !.contextText = Null]

sessionEffect(c, sid) ==
    IF TruthyText(c.locationState.promptText)
    THEN LET promptText == c.locationState.promptText
             hasVariables == Cardinality(detectVariables(promptText)) > 0
         IN  [c EXCEPT
                !.pendingPromptGroup =
                    IF hasVariables
                    THEN [id |-> c.locationState.groupId, name |-> c.locationState.groupName,
                          prompt_text |-> promptText]
                    ELSE @,
                !.showVariableDialog = IF hasVariables THEN TRUE ELSE @,
                !.inputValue = IF hasVariables THEN @ ELSE promptText,
                !.locationState = EmptyState]
    ELSE [c EXCEPT
            !.inputValue = IF SessionChanged(c.prevSessionIdRef, sid) THEN <<>> ELSE @,
            !.showPromptsCommand = IF SessionChanged(c.prevSessionIdRef, sid) THEN FALSE ELSE @,
            !.pastedArtifactItems = IF SessionChanged(c.prevSessionIdRef, sid) THEN <<>> ELSE @,
            !.prevSessionIdRef = sid,
            !.contextText = Null]

\* The effect run until no dependency changes any more
SettleEffects(c, sid) ==
    IF TruthyText(c.locationState.promptText)
    THEN sessionEffect(sessionEffect(c, sid), sid)
    ELSE sessionEffect(c, sid)

\* navigate(location.pathname, { replace: true, state: {} }) of the first run
EffectCalls(c) ==
    IF TruthyText(c.locationState.promptText)
    THEN <<NavigateCall("location.pathname", EmptyState)>>
    ELSE <<>>

\* The cells after a handler that changed sessionId or location.state
CommitEffects(c, sid) ==
    LET r == SettleEffects(c, sid)
    IN  /\ inputValue' = r.inputValue
        /\ showPromptsCommand' = r.showPromptsCommand
        /\ pastedArtifactItems' = r.pastedArtifactItems
        /\ contextText' = r.contextText
        /\ pendingPromptGroup' = r.pendingPromptGroup
        /\ showVariableDialog' = r.showVariableDialog
        /\ prevSessionIdRef' = r.prevSessionIdRef
        /\ locationState' = r.locationState

(***************************************************************************)
(* Mount: the useState / useRef initial values, then the first run of the  *)
(* effect on the session id and router state the view was entered with.    *)
(* Composed is the input a while after mount, when the user has attached   *)
(* files, saved pasted artifacts as badges and has a paste awaiting its    *)
(* dialog; a component's specification starts from it where the handlers   *)
(* that produce these cells belong to another component.                   *)
(***************************************************************************)
\* PromptsPage: whether the page is the route shown, its useState cells, its
\* requests in flight, the ids of the groups the backend holds as pinned, and
\* what became of the fetchPromptGroups call that was started last
PromptsPageState(mounted, dialog, group) ==
    [mounted |-> mounted, showVariableDialog |-> dialog, pendingPromptGroup |-> group,
     promptGroups |-> <<>>, isLoading |-> FALSE, deletingPrompt |-> NullGroup,
     versionHistoryGroup |-> NullGroup, requests |-> <<>>,
     pinnedAtBackend |-> {}, latestFetch |-> [state |-> "none", data |-> <<>>]]

\* ConfirmationDialog: the optional props as JavaScript values (a prop that is
\* not passed is undefined), the trigger element of the last render and the
\* open state the Dialog keeps itself when the open prop is not passed
Undefined == "undefined"
ConfirmationDialogProps ==
    [trigger : {Undefined, "null", "element"}, triggerText : {Undefined, "", "Delete"},
     open : {Undefined, "true", "false"}, onOpenChange : {Undefined, "function"}]
NoTrigger == [kind |-> "none", text |-> ""]
ConfirmationDialogState(mounted, props, rendered, isOpen) ==
    [mounted |-> mounted, props |-> props, rendered |-> rendered, isOpen |-> isOpen]
NoConfirmationDialog ==
    ConfirmationDialogState(FALSE,
        [trigger |-> Undefined, triggerText |-> Undefined, open |-> Undefined,
         onOpenChange |-> Undefined],
        NoTrigger, FALSE)

\* ProjectsPage: the route parameter loaderData.projectId, the useState
\* cells, the active project of the ProjectContext and the requests of the
\* page's handlers that are in flight, oldest first
NoProject == ""
Projects == {"p1", "p2"}
ProjectsPageState(mounted, projectId, activeProject, requests) ==
    [mounted |-> mounted, projectId |-> projectId, showCreateDialog |-> FALSE,
     isCreating |-> FALSE, isDeleteDialogOpen |-> FALSE, projectToDelete |-> NoProject,
     isDeleting |-> FALSE, activeProject |-> activeProject, requests |-> requests]
NoProjectsPage == ProjectsPageState(FALSE, NoProject, NoProject, <<>>)

Composed(sid, state, files, items, paste) ==
    LET c == EffectCells(<<>>, FALSE, items, Null, NullGroup, FALSE, sid, state)
        r == SettleEffects(c, sid)
    IN  /\ isResponding = FALSE
        /\ isCancelling = FALSE
        /\ sessionId = sid
        /\ selectedFiles = files
        /\ pendingPasteContent = paste
        /\ showArtifactForm = (paste # Null)
        /\ inputValue = r.inputValue
        /\ showPromptsCommand = r.showPromptsCommand
        /\ pastedArtifactItems = r.pastedArtifactItems
        /\ contextText = r.contextText
        /\ pendingPromptGroup = r.pendingPromptGroup
        /\ showVariableDialog = r.showVariableDialog
        /\ prevSessionIdRef = r.prevSessionIdRef
        /\ locationState = r.locationState
        /\ isSubmittingEnabled = isSubmittingEnabledMemo(FALSE, r.inputValue, files)
        /\ pickerOpen = FALSE
        /\ pending = EmptyBag
        /\ op = Op("mount", "")
        /\ out = EffectCalls(c)
        /\ promptsPage = PromptsPageState(FALSE, FALSE, NullGroup)
        /\ projectsPage = NoProjectsPage
        /\ confirmationDialog = NoConfirmationDialog

Mount(sid, state) == Composed(sid, state, <<>>, <<>>, Null)

Init == \E sid \in {NoSession} \cup Sessions, state \in {EmptyState} \cup RouterStates :
            Mount(sid, state)

(***************************************************************************)
(* The Session context and the router: the environment of the component.   *)
(***************************************************************************)
\* the backend starts answering (setIsResponding(true) in the Session context)
BeginResponding ==
    /\ ~isResponding
    /\ isResponding' = TRUE
    /\ isCancelling' = FALSE
    /\ op' = Op("beginResponding", "")
    /\ out' = <<>>
    /\ UNCHANGED <<routeVars, fileVars, pasteVars, draftVars, dialogVars,
                   pastedArtifactItems, contextText, pending>>
    /\ Render

\* the Stop button: shown when isResponding && !isCancelling, onClick={handleCancel}
handleCancel ==
    /\ isResponding /\ ~isCancelling
    /\ isCancelling' = TRUE
    /\ op' = Op("handleCancel", "")
    /\ out' = <<>>
    /\ UNCHANGED <<isResponding, routeVars, fileVars, pasteVars, draftVars, dialogVars,
                   pastedArtifactItems, contextText, pending>>
    /\ Render

\* the answer is complete or cancelled
EndResponding ==
    /\ isResponding
    /\ isResponding' = FALSE
    /\ isCancelling' = FALSE
    /\ op' = Op("endResponding", "")
    /\ out' = <<>>
    /\ UNCHANGED <<routeVars, fileVars, pasteVars, draftVars, dialogVars,
                   pastedArtifactItems, contextText, pending>>
    /\ Render

\* The active session and / or the router state change while the input is
\* mounted (session switch, new chat, navigation carrying a prompt)
Navigate(sid, state) ==
    /\ sid # sessionId \/ state # EmptyState
    /\ sessionId' = sid
    /\ CommitEffects(EffectCells(inputValue, showPromptsCommand, pastedArtifactItems,
                                 contextText, pendingPromptGroup, showVariableDialog,
                                 prevSessionIdRef, state), sid)
    /\ op' = Op("navigate", sessionId)
    /\ out' = EffectCalls(EffectCells(inputValue, showPromptsCommand, pastedArtifactItems,
                                      contextText, pendingPromptGroup, showVariableDialog,
                                      prevSessionIdRef, state))
    /\ UNCHANGED <<ctxVars, fileVars, pasteVars, pending>>
    /\ Render

(***************************************************************************)
(* Typing: handleInputChange(value, cursorPosition).                       *)
(***************************************************************************)
\* value[i] of JavaScript (0-based); Null stands for undefined
CharAt(s, i) == IF i >= 0 /\ i < Len(s) THEN s[i + 1] ELSE "undefined"

Includes(s, c) == \E i \in 1..Len(s) : s[i] = c

\* mutant: a "/" before the cursor opens the popover whatever precedes it
PopoverAfterChange_anySlash(value, cursorPosition, popover) ==
    LET textBeforeCursor == Substring(value, 0, cursorPosition)
        lastChar == CharAt(textBeforeCursor, Len(textBeforeCursor) - 1)
    IN  IF lastChar = "/"
        THEN TRUE
        ELSE IF popover /\ ~Includes(textBeforeCursor, "/")
        THEN FALSE
        ELSE popover

\* mutant: an open popover is closed as soon as the cursor is not right behind a "/"
PopoverAfterChange_closesEarly(value, cursorPosition, popover) ==
    LET textBeforeCursor == Substring(value, 0, cursorPosition)
        lastChar == CharAt(textBeforeCursor, Len(textBeforeCursor) - 1)
        charBeforeLast == CharAt(textBeforeCursor, Len(textBeforeCursor) - 2)
    IN  IF lastChar = "/" /\ (charBeforeLast = "undefined" \/ charBeforeLast = " " \/ charBeforeLast = "\n")
        THEN TRUE
        ELSE IF popover /\ lastChar # "/"
        THEN FALSE
        ELSE popover

\* showPromptsCommand after a text change
PopoverAfterChange(value, cursorPosition, popover) ==
    LET textBeforeCursor == Substring(value, 0, cursorPosition)
        lastChar == CharAt(textBeforeCursor, Len(textBeforeCursor) - 1)
        charBeforeLast == CharAt(textBeforeCursor, Len(textBeforeCursor) - 2)
    IN  IF lastChar = "/" /\ (charBeforeLast = "undefined" \/ charBeforeLast = " " \/ charBeforeLast = "\n")
        THEN TRUE
        ELSE IF popover /\ ~Includes(textBeforeCursor, "/")
        THEN FALSE
        ELSE popover

\* text inserted at position p; the cursor ends behind it
Insert(value, p, text) == Substring(value, 0, p) \o text \o Substring(value, p, Len(value))

\* the character before position p deleted; the cursor ends at p - 1
Delete(value, p) == Substring(value, 0, p - 1) \o Substring(value, p, Len(value))

handleInputChange(value, cursorPosition) ==
    /\ inputValue' = value
    /\ showPromptsCommand' = PopoverAfterChange(value, cursorPosition, showPromptsCommand)
    /\ op' = Op("handleInputChange", ToString(cursorPosition))
    /\ out' = <<>>
    /\ UNCHANGED <<ctxVars, routeVars, fileVars, pasteVars, dialogVars,
                   pastedArtifactItems, contextText, pending>>
    /\ Render

\* the user types one character at the cursor, or deletes the one before it
TypeChar ==
    \E p \in 0..Len(inputValue), c \in Chars :
        /\ Len(inputValue) < MaxLen
        /\ handleInputChange(Insert(inputValue, p, <<c>>), p + 1)

DeleteChar ==
    \E p \in 1..Len(inputValue) :
        handleInputChange(Delete(inputValue, p), p - 1)

\* Shift+Enter: the text area inserts a line break at the cursor
TypeNewline ==
    \E p \in 0..Len(inputValue) :
        /\ Len(inputValue) < MaxLen
        /\ handleInputChange(Insert(inputValue, p, <<"\n">>), p + 1)

(***************************************************************************)
(* Submit: onSubmit, reached from the Send button and from the Enter key.  *)
(***************************************************************************)
\* `if (isSubmittingEnabled)` of onSubmit
onSubmitGuard == Truthy(isSubmittingEnabled)
\* `event.key === "Enter" && !event.shiftKey && isSubmittingEnabled` of onKeyDown
onKeyDownGuard == Truthy(isSubmittingEnabled)
\* the Stop button: {isResponding && !isCancelling ? <Button data-testid="cancel" ...
stopRendered == isResponding /\ ~isCancelling
\* its disabled={isCancelling}
stopDisabled == isCancelling
\* the Send button is rendered unless the Stop button takes its place
sendMessageRendered == ~(isResponding /\ ~isCancelling)
\* disabled={!isSubmittingEnabled}
sendMessageDisabled == ~Truthy(isSubmittingEnabled)

\* mutant: the draft is sent without trim()
fullMessage_untrimmed ==
    IF TruthyText(contextText) THEN WithContext(inputValue, contextText)
    ELSE inputValue

fullMessage ==
    IF TruthyText(contextText) THEN WithContext(Trim(inputValue), contextText)
    ELSE Trim(inputValue)

\* onSubmit up to `await handleSubmit(event, selectedFiles, fullMessage)`
onSubmit(via) ==
    /\ op' = Op(via, "")
    /\ IF onSubmitGuard
       THEN /\ CanStart
            /\ out' = <<PreventDefault, SubmitCall(selectedFiles, fullMessage)>>
            /\ pending' = Start(Async("onSubmit", NoSession, "", Null, Null))
       ELSE /\ out' = <<PreventDefault>>
            /\ UNCHANGED pending
    /\ UNCHANGED <<ctxVars, routeVars, fileVars, pasteVars, draftVars, dialogVars,
                   pastedArtifactItems, contextText>>
    /\ Render

\* a click on the Send button: the browser delivers none to a disabled button
sendMessageClick ==
    /\ sendMessageRendered
    /\ ~sendMessageDisabled
    /\ onSubmit("sendMessageClick")

\* Enter without Shift in the text area
onKeyDown ==
    IF onKeyDownGuard
    THEN onSubmit("onKeyDown")
    ELSE /\ op' = Op("onKeyDown", "")
         /\ out' = <<>>
         /\ UNCHANGED <<ctxVars, routeVars, fileVars, pasteVars, draftVars, dialogVars,
                        pastedArtifactItems, contextText, pending>>
         /\ Render

\* mutant: the rest of onSubmit without setSelectedFiles([])
onSubmitResume_keepsFiles ==
    \E p \in InFlight("onSubmit") :
        /\ pending' = Finish(p)
        /\ pastedArtifactItems' = <<>>
        /\ inputValue' = <<>>
        /\ contextText' = Null
        /\ op' = Op("onSubmitResume", "")
        /\ out' = <<ScrollToBottom>>
        /\ UNCHANGED <<ctxVars, routeVars, fileVars, pasteVars, showPromptsCommand, dialogVars>>
        /\ Render

\* handleSubmit has returned: the rest of onSubmit
onSubmitResume ==
    \E p \in InFlight("onSubmit") :
        /\ pending' = Finish(p)
        /\ selectedFiles' = <<>>
        /\ pastedArtifactItems' = <<>>
        /\ inputValue' = <<>>
        /\ contextText' = Null
        /\ op' = Op("onSubmitResume",
                    IF inputValue # <<>> /\ selectedFiles # <<>> /\ pastedArtifactItems # <<>>
                       /\ contextText # Null
                    THEN "all cells filled" ELSE "")
        /\ out' = <<ScrollToBottom>>
        /\ UNCHANGED <<ctxVars, routeVars, pickerOpen, pasteVars, showPromptsCommand, dialogVars>>
        /\ Render

\* handleSubmit has thrown: onSubmit ends at the await
onSubmitThrow ==
    \E p \in InFlight("onSubmit") :
        /\ pending' = Finish(p)
        /\ op' = Op("onSubmitThrow", "")
        /\ out' = <<>>
        /\ UNCHANGED <<ctxVars, routeVars, fileVars, pasteVars, draftVars, dialogVars,
                       pastedArtifactItems, contextText>>
        /\ Render

(***************************************************************************)
(* The "follow-up-question" event and its auto-submit timer.               *)
(***************************************************************************)
handleFollowUp(text, prompt, autoSubmit) ==
    /\ contextText' = text
    /\ inputValue' = IF TruthyText(prompt) THEN prompt \o <<" ">> ELSE inputValue
    /\ IF TruthyText(prompt) /\ autoSubmit
       THEN /\ CanStart
            /\ pending' = Start(Async("followUpTimer", NoSession, "", prompt, text))
       ELSE UNCHANGED pending
    /\ op' = Op("handleFollowUp", [text |-> text, prompt |-> prompt, autoSubmit |-> autoSubmit])
    /\ out' = <<>>
    /\ UNCHANGED <<ctxVars, routeVars, fileVars, pasteVars, showPromptsCommand, dialogVars,
                   pastedArtifactItems>>
    /\ Render

\* mutant: the timer submits the draft, not the prompt of the event
followUpTimer_submitsDraft ==
    \E p \in InFlight("followUpTimer") :
        /\ pending' = Finish(p) (+) SetToBag({Async("followUpSubmit", NoSession, "", Null, Null)})
        /\ op' = Op("followUpTimer", "")
        /\ out' = <<SubmitCall(<<>>, WithContext(inputValue, p.text))>>
        /\ UNCHANGED <<ctxVars, routeVars, fileVars, pasteVars, draftVars, dialogVars,
                       pastedArtifactItems, contextText>>
        /\ Render

\* the 50 ms timer fires: up to `await handleSubmit(fakeEvent, [], fullMessage)`
followUpTimer ==
    \E p \in InFlight("followUpTimer") :
        /\ pending' = Finish(p) (+) SetToBag({Async("followUpSubmit", NoSession, "", Null, Null)})
        /\ op' = Op("followUpTimer", "")
        /\ out' = <<SubmitCall(<<>>, WithContext(p.prompt, p.text))>>
        /\ UNCHANGED <<ctxVars, routeVars, fileVars, pasteVars, draftVars, dialogVars,
                       pastedArtifactItems, contextText>>
        /\ Render

followUpResume ==
    \E p \in InFlight("followUpSubmit") :
        /\ pending' = Finish(p)
        /\ contextText' = Null
        /\ inputValue' = <<>>
        /\ op' = Op("followUpResume", "")
        /\ out' = <<ScrollToBottom>>
        /\ UNCHANGED <<ctxVars, routeVars, fileVars, pasteVars, showPromptsCommand, dialogVars,
                       pastedArtifactItems>>
        /\ Render

followUpThrow ==
    \E p \in InFlight("followUpSubmit") :
        /\ pending' = Finish(p)
        /\ op' = Op("followUpThrow", "")
        /\ out' = <<>>
        /\ UNCHANGED <<ctxVars, routeVars, fileVars, pasteVars, draftVars, dialogVars,
                       pastedArtifactItems, contextText>>
        /\ Render

(***************************************************************************)
(* Files: the picker, the drop zone, the badges' remove buttons.           *)
(***************************************************************************)
\* the Attach button (disabled={isResponding}) opens the browser's file chooser
handleFileSelect ==
    /\ ~isResponding
    /\ ~pickerOpen
    /\ pickerOpen' = TRUE
    /\ op' = Op("handleFileSelect", "")
    /\ out' = <<>>
    /\ UNCHANGED <<ctxVars, routeVars, selectedFiles, pasteVars, draftVars, dialogVars,
                   pastedArtifactItems, contextText, pending>>
    /\ Render

\* setSelectedFiles(prev => [...prev, ...newFiles]) when newFiles.length > 0
mergeFiles(files) == selectedFiles \o NewFiles(files, selectedFiles)

\* the change event of the hidden file input: the chooser delivers its selection
handleFileChange(files) ==
    /\ pickerOpen
    /\ pickerOpen' = FALSE
    /\ selectedFiles' = mergeFiles(files)
    /\ op' = Op("handleFileChange", "")
    /\ out' = <<>>
    /\ UNCHANGED <<ctxVars, routeVars, pasteVars, draftVars, dialogVars,
                   pastedArtifactItems, contextText, pending>>
    /\ Render

handleFilesDropped(files) ==
    /\ selectedFiles' = IF isResponding THEN selectedFiles ELSE mergeFiles(files)
    /\ op' = Op("handleFilesDropped", "")
    /\ out' = <<>>
    /\ UNCHANGED <<ctxVars, routeVars, pickerOpen, pasteVars, draftVars, dialogVars,
                   pastedArtifactItems, contextText, pending>>
    /\ Render

\* prev.filter((_, i) => i !== index), index 0-based
handleRemoveFile(index) ==
    /\ selectedFiles' = SubSeq(selectedFiles, 1, index) \o
                        SubSeq(selectedFiles, index + 2, Len(selectedFiles))
    /\ op' = Op("handleRemoveFile", "")
    /\ out' = <<>>
    /\ UNCHANGED <<ctxVars, routeVars, pickerOpen, pasteVars, draftVars, dialogVars,
                   pastedArtifactItems, contextText, pending>>
    /\ Render

(***************************************************************************)
(* Paste: handlePaste(event).  The clipboard carries files or a text.  A   *)
(* text paste whose default is not prevented is inserted by the browser at *)
(* the cursor p, which raises the text area's change event.                *)
(***************************************************************************)
\* the paste is left to the browser
pasteDefault(files, text) ==
    \/ isResponding
    \/ Len(files) = 0 /\ ~(TruthyText(text) /\ isLargeText(text))

handlePaste(files, text, p) ==
    /\ op' = Op("handlePaste", text)
    /\ out' = IF pasteDefault(files, text) THEN <<>> ELSE <<PreventDefault>>
    /\ selectedFiles' =
         IF ~isResponding /\ Len(files) > 0 THEN mergeFiles(files) ELSE selectedFiles
    /\ IF ~isResponding /\ Len(files) = 0 /\ TruthyText(text) /\ isLargeText(text)
       THEN /\ pendingPasteContent' = text
            /\ showArtifactForm' = TRUE
       ELSE UNCHANGED pasteVars
    /\ IF pasteDefault(files, text) /\ TruthyText(text)
       THEN /\ Len(inputValue) + Len(text) <= MaxLen
            /\ inputValue' = Insert(inputValue, p, text)
            /\ showPromptsCommand' =
                 PopoverAfterChange(Insert(inputValue, p, text), p + Len(text), showPromptsCommand)
       ELSE UNCHANGED draftVars
    /\ UNCHANGED <<ctxVars, routeVars, pickerOpen, dialogVars, pastedArtifactItems,
                   contextText, pending>>
    /\ Render

pasteFiles == \E files \in FileBatches : handlePaste(files, Null, 0)

pasteText == \E text \in ClipboardTexts, p \in 0..Len(inputValue) : handlePaste(<<>>, text, p)

(***************************************************************************)
(* The paste-artifact dialog: handleSaveAsArtifact and its continuations.  *)
(***************************************************************************)
FileTypes == {"auto", "text/markdown"}
mimeTypeOf(fileType) == IF fileType # "auto" THEN fileType ELSE "text/plain"

\* mutant: the finally block without setShowArtifactForm(false)
clearPendingPaste_keepsDialog ==
    /\ pendingPasteContent' = Null
    /\ UNCHANGED showArtifactForm

\* the finally block
clearPendingPaste ==
    /\ pendingPasteContent' = Null
    /\ showArtifactForm' = FALSE

\* handleSaveAsArtifact up to `await uploadArtifactFile(file, sessionId, description)`
handleSaveAsArtifact(title, fileType) ==
    /\ showArtifactForm
    /\ op' = Op("handleSaveAsArtifact", "")
    /\ IF ~TruthyText(pendingPasteContent)
       THEN /\ out' = <<>>
            /\ UNCHANGED pending
       ELSE /\ CanStart
            /\ out' = <<UploadCall(sessionId, title, pendingPasteContent, mimeTypeOf(fileType))>>
            /\ pending' = Start(Async("upload", sessionId, title, Null, Null))
    /\ UNCHANGED <<ctxVars, routeVars, fileVars, pasteVars, draftVars, dialogVars,
                   pastedArtifactItems, contextText>>
    /\ Render

\* id: `paste-artifact-${Date.now()}-${Math.random()...}`, a fresh id
FreshId(items) ==
    CHOOSE n \in 1..(Len(items) + 1) : \A i \in 1..Len(items) : items[i].id # n

PastedArtifactItem(items, uri, title) == [id |-> FreshId(items), artifactId |-> uri, filename |-> title]

\* the upload returned nothing, or an object with an error field
uploadFailed(result) ==
    \E p \in InFlight("upload") :
        /\ result \in {"null", "error"}
        /\ pending' = Finish(p)
        /\ clearPendingPaste
        /\ op' = Op("uploadFailed", result)
        /\ out' = <<Notification("error")>>
        /\ UNCHANGED <<ctxVars, routeVars, fileVars, draftVars, dialogVars,
                       pastedArtifactItems, contextText>>
        /\ Render

\* mutant: the catch block issues the upload once more
uploadThrow_retries ==
    \E p \in InFlight("upload") :
        /\ op' = Op("uploadThrow", "")
        /\ out' = <<Notification("error"),
                    UploadCall(p.sid, p.title, pendingPasteContent, mimeTypeOf("auto"))>>
        /\ UNCHANGED <<ctxVars, routeVars, fileVars, pasteVars, draftVars, dialogVars,
                       pastedArtifactItems, contextText, pending>>
        /\ Render

\* the upload threw: catch, then finally
uploadThrow ==
    \E p \in InFlight("upload") :
        /\ pending' = Finish(p)
        /\ clearPendingPaste
        /\ op' = Op("uploadThrow", "")
        /\ out' = <<Notification("error")>>
        /\ UNCHANGED <<ctxVars, routeVars, fileVars, draftVars, dialogVars,
                       pastedArtifactItems, contextText>>
        /\ Render

\* The session an upload is stored in: the one passed, or a new one when none was
ResultSessions(sid) == IF sid = NoSession THEN {NoSession} \cup Sessions ELSE {NoSession, sid}

\* the upload returned { uri, sessionId }: up to `await artifactsRefetch()`.
\* setSessionId changes a dependency of the session effect, which then runs
\* on the cells as this continuation left them.
uploadSucceeded(uri, resultSessionId) ==
    \E p \in InFlight("upload") :
        LET newSessionId ==
                IF resultSessionId # NoSession /\ resultSessionId # p.sid
                THEN resultSessionId ELSE sessionId
            items == Append(pastedArtifactItems, PastedArtifactItem(pastedArtifactItems, uri, p.title))
        IN  /\ resultSessionId \in ResultSessions(p.sid)
            /\ Len(pastedArtifactItems) < MaxItems
            /\ pending' = Finish(p) (+) SetToBag({Async("refetch", NoSession, "", Null, Null)})
            /\ sessionId' = newSessionId
            /\ IF newSessionId # sessionId
               THEN CommitEffects(EffectCells(inputValue, showPromptsCommand, items, contextText,
                                              pendingPromptGroup, showVariableDialog,
                                              prevSessionIdRef, locationState), newSessionId)
               ELSE /\ pastedArtifactItems' = items
                    /\ UNCHANGED <<draftVars, dialogVars, contextText, prevSessionIdRef,
                                   locationState>>
            /\ op' = Op("uploadSucceeded", uri)
            /\ out' = <<Notification("info"), RefetchCall>>
            /\ UNCHANGED <<ctxVars, fileVars, pasteVars>>
            /\ Render

\* mutant: the cleanup sits in the catch block, not in a finally
refetchResume_noFinally ==
    \E p \in InFlight("refetch") :
        /\ pending' = Finish(p)
        /\ op' = Op("refetchResume", "")
        /\ out' = <<>>
        /\ UNCHANGED <<ctxVars, routeVars, fileVars, pasteVars, draftVars, dialogVars,
                       pastedArtifactItems, contextText>>
        /\ Render

\* artifactsRefetch has returned: finally
refetchResume ==
    \E p \in InFlight("refetch") :
        /\ pending' = Finish(p)
        /\ clearPendingPaste
        /\ op' = Op("refetchResume", "")
        /\ out' = <<>>
        /\ UNCHANGED <<ctxVars, routeVars, fileVars, draftVars, dialogVars,
                       pastedArtifactItems, contextText>>
        /\ Render

\* artifactsRefetch has thrown: catch, then finally
refetchThrow ==
    \E p \in InFlight("refetch") :
        /\ pending' = Finish(p)
        /\ clearPendingPaste
        /\ op' = Op("refetchThrow", "")
        /\ out' = <<Notification("error")>>
        /\ UNCHANGED <<ctxVars, routeVars, fileVars, draftVars, dialogVars,
                       pastedArtifactItems, contextText>>
        /\ Render

handleCancelArtifactForm ==
    /\ showArtifactForm
    /\ clearPendingPaste
    /\ op' = Op("handleCancelArtifactForm", "")
    /\ out' = <<>>
    /\ UNCHANGED <<ctxVars, routeVars, fileVars, draftVars, dialogVars,
                   pastedArtifactItems, contextText, pending>>
    /\ Render

\* prev.filter(item => item.id !== id)
handleRemovePastedArtifact(id) ==
    /\ pastedArtifactItems' = SelectSeq(pastedArtifactItems, LAMBDA item : item.id # id)
    /\ op' = Op("handleRemovePastedArtifact", "")
    /\ out' = <<>>
    /\ UNCHANGED <<ctxVars, routeVars, fileVars, pasteVars, draftVars, dialogVars,
                   contextText, pending>>
    /\ Render

(***************************************************************************)
(* The slash-command popover, the variable dialog and the recorder.        *)
(***************************************************************************)
\* String.prototype.lastIndexOf for one character: 0-based, -1 when absent
LastIndexOf(s, c) ==
    IF Includes(s, c) THEN (CHOOSE i \in 1..Len(s) : s[i] = c /\ \A j \in (i + 1)..Len(s) : s[j] # c) - 1
    ELSE -1

\* mutant: the text after the cursor is not carried over
promptSelectText_dropsTail(value, cursorPosition, promptText) ==
    LET textBeforeCursor == Substring(value, 0, cursorPosition)
        lastSlashIndex == LastIndexOf(textBeforeCursor, "/")
    IN  Substring(textBeforeCursor, 0, lastSlashIndex) \o promptText

\* the draft after a prompt is chosen in the popover, the cursor being at cursorPosition
promptSelectText(value, cursorPosition, promptText) ==
    LET textBeforeCursor == Substring(value, 0, cursorPosition)
        textAfterCursor == Substring(value, cursorPosition, Len(value))
        lastSlashIndex == LastIndexOf(textBeforeCursor, "/")
    IN  Substring(textBeforeCursor, 0, lastSlashIndex) \o promptText \o textAfterCursor

handlePromptSelect(promptText, cursorPosition) ==
    /\ showPromptsCommand
    /\ Len(promptSelectText(inputValue, cursorPosition, promptText)) <= MaxLen
    /\ inputValue' = promptSelectText(inputValue, cursorPosition, promptText)
    /\ showPromptsCommand' = FALSE
    /\ op' = Op("handlePromptSelect", [cursorPosition |-> cursorPosition, promptText |-> promptText])
    /\ out' = <<>>
    /\ UNCHANGED <<ctxVars, routeVars, fileVars, pasteVars, dialogVars,
                   pastedArtifactItems, contextText, pending>>
    /\ Render

\* mutant: the transcript is not embedded
createEnhancedMessage_ignoresContext(command, conversationContext) ==
    IF command # "create-template" THEN <<>>
    ELSE <<"Help me create a new prompt template.">>

\* createEnhancedMessage: a text as the sequence of its lines (joined by "\n");
\* the transcript is itself a sequence of lines
createEnhancedMessage(command, conversationContext) ==
    IF command # "create-template" THEN <<>>
    ELSE IF ~TruthyText(conversationContext) THEN <<"Help me create a new prompt template.">>
    ELSE <<"I want to create a reusable prompt template based on this conversation I just had:",
           "",
           "<conversation_history>">> \o
         conversationContext \o
         <<"</conversation_history>",
           "",
           "Please help me create a prompt template by:",
           "",
           "1. **Analyzing the Pattern**: Identify the core task/question pattern in this conversation",
           "2. **Extracting Variables**: Determine which parts should be variables (use {{variable_name}} syntax)",
           "3. **Generalizing**: Make it reusable for similar tasks",
           "4. **Suggesting Metadata**: Recommend a name, description, category, and chat shortcut",
           "",
           "Focus on capturing what made this conversation successful so it can be reused with different inputs.">>

\* the context handed over by PromptsCommand: none, an empty one, or a transcript
Transcripts == {Null, <<>>, <<"user: a", "assistant: a">>}

handleChatCommand(command, context) ==
    /\ showPromptsCommand
    /\ op' = Op("handleChatCommand", context)
    /\ IF command = "create-template"
       THEN /\ out' = <<NavigateCall("/prompts/new?mode=ai-assisted",
                                     createEnhancedMessage(command, context))>>
            /\ inputValue' = <<>>
            /\ showPromptsCommand' = FALSE
       ELSE /\ out' = <<>>
            /\ UNCHANGED draftVars
    /\ UNCHANGED <<ctxVars, routeVars, fileVars, pasteVars, dialogVars,
                   pastedArtifactItems, contextText, pending>>
    /\ Render

\* onClose of PromptsCommand
promptsCommandClose ==
    /\ showPromptsCommand
    /\ showPromptsCommand' = FALSE
    /\ op' = Op("promptsCommandClose", "")
    /\ out' = <<>>
    /\ UNCHANGED <<ctxVars, routeVars, fileVars, pasteVars, inputValue, dialogVars,
                   pastedArtifactItems, contextText, pending>>
    /\ Render

\* the variable dialog is rendered when showVariableDialog && pendingPromptGroup
variableDialogRendered == showVariableDialog /\ pendingPromptGroup # NullGroup

ProcessedPrompts == {<<"a">>, <<"a", "a">>}

handleVariableSubmit(processedPrompt) ==
    /\ variableDialogRendered
    /\ inputValue' = processedPrompt
    /\ showVariableDialog' = FALSE
    /\ pendingPromptGroup' = NullGroup
    /\ op' = Op("handleVariableSubmit", processedPrompt)
    /\ out' = <<>>
    /\ UNCHANGED <<ctxVars, routeVars, fileVars, pasteVars, showPromptsCommand,
                   pastedArtifactItems, contextText, pending>>
    /\ Render

\* mutant: closing the dialog keeps the group it was opened for
variableDialogClose_keepsGroup ==
    /\ variableDialogRendered
    /\ showVariableDialog' = FALSE
    /\ UNCHANGED pendingPromptGroup
    /\ op' = Op("variableDialogClose", "")
    /\ out' = <<>>
    /\ UNCHANGED <<ctxVars, routeVars, fileVars, pasteVars, draftVars,
                   pastedArtifactItems, contextText, pending>>
    /\ Render

\* onClose of VariableDialog
variableDialogClose ==
    /\ variableDialogRendered
    /\ showVariableDialog' = FALSE
    /\ pendingPromptGroup' = NullGroup
    /\ op' = Op("variableDialogClose", "")
    /\ out' = <<>>
    /\ UNCHANGED <<ctxVars, routeVars, fileVars, pasteVars, draftVars,
                   pastedArtifactItems, contextText, pending>>
    /\ Render

TranscribedTexts == {<<"a">>, <<"b">>}

\* mutant: the transcript is appended without the separating space
transcriptionText_noSpace(value, text) == value \o text

transcriptionText(value, text) == IF value # <<>> THEN value \o <<" ">> \o text ELSE text

\* onTranscriptionComplete of AudioRecorder (disabled={isResponding})
handleTranscription(text) ==
    /\ Len(transcriptionText(inputValue, text)) <= MaxDictated
    /\ inputValue' = transcriptionText(inputValue, text)
    /\ op' = Op("handleTranscription",
                IF op.name = "handleTranscription"
                THEN [from |-> op.arg.from, texts |-> Append(op.arg.texts, text)]
                ELSE [from |-> inputValue, texts |-> <<text>>])
    /\ out' = <<>>
    /\ UNCHANGED <<ctxVars, routeVars, fileVars, pasteVars, showPromptsCommand, dialogVars,
                   pastedArtifactItems, contextText, pending>>
    /\ Render

(***************************************************************************)
(* PromptsPage: "Use in Chat".  The page and the chat view are routes of   *)
(* one router: navigate("/chat", { state }) unmounts the page and mounts   *)
(* ChatInputArea, whose effect then finds the state.                       *)
(***************************************************************************)
\* the prompt groups of the backend: one plain, pinned or not, and one with a
\* placeholder
PromptGroups ==
    { [id |-> "g1", name |-> "plain", prompt_text |-> <<"a">>, is_pinned |-> FALSE],
      [id |-> "g1", name |-> "plain", prompt_text |-> <<"a">>, is_pinned |-> TRUE],
      [id |-> "g2", name |-> "template", prompt_text |-> <<"a", VarToken>>, is_pinned |-> FALSE] }

\* what GET /api/v1/prompts/groups/all answers: both groups, or the template
\* alone once the plain one is deleted
ServerLists ==
    {<<g, t>> : g \in {x \in PromptGroups : x.id = "g1"}, t \in {x \in PromptGroups : x.id = "g2"}}
    \cup {<<t>> : t \in {x \in PromptGroups : x.id = "g2"}}

\* A request of a page's handler in flight: its kind, what the continuation
\* captured, and whether the component was unmounted since it was sent
Request(kind, arg, orphan) == [kind |-> kind, arg |-> arg, orphan |-> orphan]
RemoveAt(s, i) == SubSeq(s, 1, i - 1) \o SubSeq(s, i + 1, Len(s))
Orphaned(requests) == [i \in 1..Len(requests) |-> [requests[i] EXCEPT !.orphan = TRUE]]

\* The page after the continuation of request i, which leaves the cells
\* `cells` and sends the requests `chained`: the state setters of an
\* unmounted component do nothing
Settle(page, i, cells, chained) ==
    [(IF page.requests[i].orphan THEN page ELSE cells)
        EXCEPT !.requests = RemoveAt(page.requests, i) \o chained]

HttpCall(method, path) == [kind |-> "authenticatedFetch", method |-> method, path |-> path]

\* what the page's VariableDialog hands to onSubmit: the template with its
\* placeholders replaced by what the user typed, a placeholder included
PageProcessedPrompts == ProcessedPrompts \cup {<<"a", VarToken>>}

ChatState(promptText, group) ==
    [promptText |-> promptText, groupId |-> group.id, groupName |-> group.name]

\* ChatInputArea mounts under session sid with router state `state`, and its
\* effect runs
MountChatInput(sid, state) ==
    /\ UNCHANGED <<ctxVars, pending>>
    /\ sessionId' = sid
    /\ CommitEffects(EffectCells(<<>>, FALSE, <<>>, Null, NullGroup, FALSE, sid, state), sid)
    /\ selectedFiles' = <<>>
    /\ pendingPasteContent' = Null
    /\ showArtifactForm' = FALSE
    /\ pickerOpen' = FALSE
    /\ isSubmittingEnabled' = isSubmittingEnabledMemo(isResponding', inputValue', selectedFiles')

\* navigate("/chat", { state }): ChatInputArea mounts and its effect runs
EnterChat(state) ==
    /\ UNCHANGED otherViews
    /\ MountChatInput(sessionId, state)

\* the chat input is not involved in a step of another view
ChatInputIdle ==
    UNCHANGED <<ctxVars, routeVars, fileVars, pasteVars, draftVars, dialogVars,
                pastedArtifactItems, contextText, pending, isSubmittingEnabled>>

\* the page is left: its cells are gone, its requests stay in flight
LeavePromptsPage(page) ==
    [PromptsPageState(FALSE, FALSE, NullGroup) EXCEPT !.requests = Orphaned(page.requests),
                                                      !.pinnedAtBackend = page.pinnedAtBackend]

\* fetchPromptGroups up to its await: setIsLoading(true) and the GET; `then`
\* names the handler that awaits it
fetchPromptGroups(page, then, orphan) ==
    [page EXCEPT !.isLoading = IF orphan THEN @ ELSE TRUE,
                 !.latestFetch = IF orphan THEN @ ELSE [state |-> "pending", data |-> <<>>],
                 !.requests = Append(@, Request("fetchPromptGroups", then, orphan))]

\* the main view shows the cards unless it shows "Loading prompts..."
PromptsPage_cardsRendered ==
    /\ promptsPage.mounted
    /\ promptsPage.versionHistoryGroup = NullGroup
    /\ ~promptsPage.isLoading

\* the user leaves the chat view for the Prompts page: the useState initial
\* values, then the mount effect's fetchPromptGroups()
openPromptsPage ==
    /\ ~promptsPage.mounted /\ ~projectsPage.mounted
    /\ Len(promptsPage.requests) < MaxRequests
    /\ promptsPage' =
            fetchPromptGroups([PromptsPageState(TRUE, FALSE, NullGroup)
                                  EXCEPT !.requests = promptsPage.requests,
                                         !.pinnedAtBackend = promptsPage.pinnedAtBackend],
                              "", FALSE)
    /\ op' = Op("openPromptsPage", "")
    /\ out' = <<NavigateCall("/prompts", EmptyState), HttpCall("GET", <<"groups", "all">>)>>
    /\ UNCHANGED <<ctxVars, routeVars, fileVars, pasteVars, draftVars, dialogVars,
                   pastedArtifactItems, contextText, pending, isSubmittingEnabled, otherViews>>

\* mutant: "Use in Chat" navigates with the template as it is
PromptsPage_handleUseInChat_asIs(prompt) ==
    /\ PromptsPage_cardsRendered
    /\ \E i \in 1..Len(promptsPage.promptGroups) : promptsPage.promptGroups[i] = prompt
    /\ op' = Op("PromptsPage.handleUseInChat", prompt.id)
    /\ promptsPage' = LeavePromptsPage(promptsPage)
    /\ out' = <<NavigateCall("/chat", ChatState(prompt.prompt_text, prompt))>>
    /\ EnterChat(ChatState(prompt.prompt_text, prompt))

PromptsPage_handleUseInChat(prompt) ==
    LET promptText == prompt.prompt_text
        hasVariables == Cardinality(detectVariables(promptText)) > 0
    IN  /\ PromptsPage_cardsRendered
        /\ \E i \in 1..Len(promptsPage.promptGroups) : promptsPage.promptGroups[i] = prompt
        /\ op' = Op("PromptsPage.handleUseInChat", prompt.id)
        /\ IF hasVariables
           THEN /\ promptsPage' = [promptsPage EXCEPT !.showVariableDialog = TRUE,
                                                       !.pendingPromptGroup = prompt]
                /\ out' = <<>>
                /\ UNCHANGED <<ctxVars, routeVars, fileVars, pasteVars, draftVars, dialogVars,
                               pastedArtifactItems, contextText, pending, isSubmittingEnabled,
                               otherViews>>
           ELSE /\ promptsPage' = LeavePromptsPage(promptsPage)
                /\ out' = <<NavigateCall("/chat", ChatState(promptText, prompt))>>
                /\ EnterChat(ChatState(promptText, prompt))

\* the page's dialog is rendered when showVariableDialog && pendingPromptGroup
PromptsPage_variableDialogRendered ==
    /\ promptsPage.mounted
    /\ promptsPage.versionHistoryGroup = NullGroup
    /\ promptsPage.showVariableDialog
    /\ promptsPage.pendingPromptGroup # NullGroup

PromptsPage_handleVariableSubmit(processedPrompt) ==
    /\ PromptsPage_variableDialogRendered
    /\ op' = Op("PromptsPage.handleVariableSubmit", processedPrompt)
    /\ out' = <<NavigateCall("/chat", ChatState(processedPrompt, promptsPage.pendingPromptGroup))>>
    /\ promptsPage' = LeavePromptsPage(promptsPage)
    /\ EnterChat(ChatState(processedPrompt, promptsPage.pendingPromptGroup))

\* onClose of the page's VariableDialog
PromptsPage_variableDialogClose ==
    /\ PromptsPage_variableDialogRendered
    /\ promptsPage' = [promptsPage EXCEPT !.showVariableDialog = FALSE,
                                          !.pendingPromptGroup = NullGroup]
    /\ op' = Op("PromptsPage.variableDialogClose", "")
    /\ out' = <<>>
    /\ UNCHANGED <<ctxVars, routeVars, fileVars, pasteVars, draftVars, dialogVars,
                   pastedArtifactItems, contextText, pending, isSubmittingEnabled, otherViews>>

(***************************************************************************)
(* PromptsPage: the list of prompt groups, pinning, deletion and the       *)
(* version-history view.  A response is ok, not ok, or the fetch throws.   *)
(***************************************************************************)
Results == {"ok", "notOk", "throw"}

\* the Refresh Prompts button (disabled={isLoading}) of the main view
PromptsPage_refresh ==
    /\ PromptsPage_cardsRendered
    /\ Len(promptsPage.requests) < MaxRequests
    /\ promptsPage' = fetchPromptGroups(promptsPage, "", FALSE)
    /\ op' = Op("PromptsPage.refresh", "")
    /\ out' = <<HttpCall("GET", <<"groups", "all">>)>>
    /\ ChatInputIdle
    /\ UNCHANGED otherViews

\* fetchPromptGroups after its await: setPromptGroups(data) if response.ok,
\* finally setIsLoading(false); then the rest of a handleDeleteConfirm that
\* awaited it
PromptsPage_fetchResponse(i, result, data) ==
    LET r == promptsPage.requests[i]
        startedLast == /\ promptsPage.latestFetch.state = "pending"
                       /\ \A j \in (i + 1)..Len(promptsPage.requests) :
                             \/ promptsPage.requests[j].kind # "fetchPromptGroups"
                             \/ promptsPage.requests[j].orphan
        cells == [promptsPage EXCEPT
                    !.promptGroups = IF result = "ok" THEN data ELSE @,
                    !.isLoading = FALSE,
                    !.latestFetch = IF startedLast THEN [state |-> result, data |-> data] ELSE @,
                    !.deletingPrompt = IF r.arg = "handleDeleteConfirm" THEN NullGroup ELSE @]
    IN  /\ r.kind = "fetchPromptGroups"
        /\ promptsPage' = Settle(promptsPage, i, cells, <<>>)
        /\ op' = Op("PromptsPage.fetchResponse", [request |-> r, result |-> result])
        /\ out' = IF r.arg = "handleDeleteConfirm" THEN <<Notification("success")>> ELSE <<>>
        /\ ChatInputIdle
        /\ UNCHANGED otherViews

\* prev.map(p => (p.id === id ? { ...p, is_pinned: value } : p))
SetPinned(groups, id, value) ==
    [i \in 1..Len(groups) |->
        IF groups[i].id = id THEN [groups[i] EXCEPT !.is_pinned = value] ELSE groups[i]]

\* handleTogglePin up to its await: the optimistic update and the PATCH.  A
\* card calls it with the id and the pin status it shows.
PromptsPage_handleTogglePin(id, currentStatus) ==
    /\ PromptsPage_cardsRendered
    /\ \E k \in 1..Len(promptsPage.promptGroups) :
            /\ promptsPage.promptGroups[k].id = id
            /\ promptsPage.promptGroups[k].is_pinned = currentStatus
    /\ Len(promptsPage.requests) < MaxRequests
    /\ promptsPage' =
            [promptsPage EXCEPT
                !.promptGroups = SetPinned(@, id, ~currentStatus),
                !.requests = Append(@, Request("handleTogglePin",
                                               [id |-> id, currentStatus |-> currentStatus], FALSE))]
    /\ op' = Op("PromptsPage.handleTogglePin", [id |-> id, currentStatus |-> currentStatus])
    /\ out' = <<HttpCall("PATCH", <<"groups", id, "pin">>)>>
    /\ ChatInputIdle
    /\ UNCHANGED otherViews

\* handleTogglePin after its await: a response that is not ok, or an
\* exception, reverts the update.  The PATCH carries no body: the backend
\* has toggled the pin of the group when it answers ok.
PromptsPage_pinResponse(i, result) ==
    LET r == promptsPage.requests[i]
        cells == [promptsPage EXCEPT
                    !.promptGroups = IF result = "ok" THEN @
                                     ELSE SetPinned(@, r.arg.id, r.arg.currentStatus)]
        toggled == IF r.arg.id \in promptsPage.pinnedAtBackend
                   THEN promptsPage.pinnedAtBackend \ {r.arg.id}
                   ELSE promptsPage.pinnedAtBackend \cup {r.arg.id}
    IN  /\ r.kind = "handleTogglePin"
        /\ promptsPage' = [Settle(promptsPage, i, cells, <<>>) EXCEPT
                              !.pinnedAtBackend = IF result = "ok" THEN toggled ELSE @]
        /\ op' = Op("PromptsPage.pinResponse", [request |-> r, result |-> result])
        /\ out' = <<Notification(IF result = "ok" THEN "success" ELSE "error")>>
        /\ ChatInputIdle
        /\ UNCHANGED otherViews

\* onDelete of a card, onDeleteAll of the version-history view
PromptsPage_handleDeleteClick(id, name) ==
    /\ promptsPage.mounted
    /\ \/ /\ PromptsPage_cardsRendered
          /\ \E k \in 1..Len(promptsPage.promptGroups) :
                promptsPage.promptGroups[k].id = id /\ promptsPage.promptGroups[k].name = name
       \/ /\ promptsPage.versionHistoryGroup.id = id
          /\ promptsPage.versionHistoryGroup.name = name
    /\ promptsPage' = [promptsPage EXCEPT !.deletingPrompt = [id |-> id, name |-> name]]
    /\ op' = Op("PromptsPage.handleDeleteClick", id)
    /\ out' = <<>>
    /\ ChatInputIdle
    /\ UNCHANGED otherViews

\* {deletingPrompt && <PromptDeleteDialog ... onClose={() => setDeletingPrompt(null)} />}
PromptsPage_deleteDialogClose ==
    /\ promptsPage.mounted
    /\ promptsPage.deletingPrompt # NullGroup
    /\ promptsPage' = [promptsPage EXCEPT !.deletingPrompt = NullGroup]
    /\ op' = Op("PromptsPage.deleteDialogClose", "")
    /\ out' = <<>>
    /\ ChatInputIdle
    /\ UNCHANGED otherViews

\* handleDeleteConfirm up to its first await, called by the dialog that is
\* rendered while deletingPrompt is set; the continuation keeps the
\* deletingPrompt and the versionHistoryGroup of this render
PromptsPage_handleDeleteConfirm ==
    /\ promptsPage.mounted
    /\ promptsPage.deletingPrompt # NullGroup
    /\ Len(promptsPage.requests) < MaxRequests
    /\ op' = Op("PromptsPage.handleDeleteConfirm", promptsPage.deletingPrompt)
    /\ IF promptsPage.deletingPrompt = NullGroup
       THEN /\ out' = <<>>
            /\ UNCHANGED promptsPage
       ELSE /\ out' = <<HttpCall("DELETE", <<"groups", promptsPage.deletingPrompt.id>>)>>
            /\ promptsPage' =
                    [promptsPage EXCEPT
                        !.requests = Append(@, Request("handleDeleteConfirm",
                            [deletingPrompt |-> promptsPage.deletingPrompt,
                             versionHistoryGroup |-> promptsPage.versionHistoryGroup], FALSE))]
    /\ ChatInputIdle
    /\ UNCHANGED otherViews

\* handleDeleteConfirm after the DELETE: on response.ok up to
\* `await fetchPromptGroups()`, otherwise to its end
PromptsPage_deleteResponse(i, result) ==
    LET r == promptsPage.requests[i]
        closed == [promptsPage EXCEPT
                     !.versionHistoryGroup =
                        IF r.arg.versionHistoryGroup.id = r.arg.deletingPrompt.id
                        THEN NullGroup ELSE @]
        failed == [promptsPage EXCEPT !.deletingPrompt = NullGroup]
    IN  /\ r.kind = "handleDeleteConfirm"
        /\ IF result = "ok"
           THEN /\ promptsPage' =
                        fetchPromptGroups(Settle(promptsPage, i, closed, <<>>),
                                          "handleDeleteConfirm", r.orphan)
                /\ out' = <<HttpCall("GET", <<"groups", "all">>)>>
           ELSE /\ promptsPage' = Settle(promptsPage, i, failed, <<>>)
                /\ out' = <<Notification("error")>>
        /\ op' = Op("PromptsPage.deleteResponse", [request |-> r, result |-> result])
        /\ ChatInputIdle
        /\ UNCHANGED otherViews

\* onViewVersions: navigate(`/prompts/${group.id}/versions`); the route
\* effect then loads the group
PromptsPage_viewVersions(id) ==
    /\ PromptsPage_cardsRendered
    /\ \E k \in 1..Len(promptsPage.promptGroups) : promptsPage.promptGroups[k].id = id
    /\ Len(promptsPage.requests) < MaxRequests
    /\ promptsPage' =
            [promptsPage EXCEPT !.requests = Append(@, Request("loadPromptGroup", id, FALSE))]
    /\ op' = Op("PromptsPage.viewVersions", id)
    /\ out' = <<NavigateCall(<<"/prompts", id, "versions">>, EmptyState),
                HttpCall("GET", <<"groups", id>>)>>
    /\ ChatInputIdle
    /\ UNCHANGED otherViews

\* loadPromptGroup after its await: setVersionHistoryGroup(group) if response.ok
PromptsPage_loadGroupResponse(i, result, group) ==
    LET r == promptsPage.requests[i]
        cells == [promptsPage EXCEPT
                    !.versionHistoryGroup = IF result = "ok" THEN group ELSE @]
    IN  /\ r.kind = "loadPromptGroup"
        /\ group.id = r.arg
        /\ promptsPage' = Settle(promptsPage, i, cells, <<>>)
        /\ op' = Op("PromptsPage.loadGroupResponse", [request |-> r, result |-> result])
        /\ out' = <<>>
        /\ ChatInputIdle
        /\ UNCHANGED otherViews

\* onBack of the version-history view: navigate("/prompts"); the route
\* effect resets the view cells
PromptsPage_backToList ==
    /\ promptsPage.mounted
    /\ promptsPage.versionHistoryGroup # NullGroup
    /\ promptsPage' = [promptsPage EXCEPT !.versionHistoryGroup = NullGroup]
    /\ op' = Op("PromptsPage.backToList", "")
    /\ out' = <<NavigateCall("/prompts", EmptyState)>>
    /\ ChatInputIdle
    /\ UNCHANGED otherViews

(***************************************************************************)
(* ConfirmationDialog: a Dialog with an optional trigger, a Cancel and a   *)
(* Confirm button.  The parent renders it with props; the Dialog shows its *)
(* content when the open prop says so, or, without that prop, when its own *)
(* open state does.                                                        *)
(***************************************************************************)
\* JavaScript truthiness of a prop, and whether ?? passes it over
TruthyProp(v) == v \notin {Undefined, "null", "", "false"}
Nullish(v) == v \in {Undefined, "null"}

hasTrigger(props) == TruthyProp(props.trigger) \/ TruthyProp(props.triggerText)
isExternallyControlled(props) == TruthyProp(props.open) /\ TruthyProp(props.onOpenChange)

\* {hasTrigger && !isExternallyControlled &&
\*     <DialogTrigger asChild>{trigger ?? <Button>{triggerText}</Button>}</DialogTrigger>}
triggerElement(props) ==
    IF hasTrigger(props) /\ ~isExternallyControlled(props)
    THEN IF Nullish(props.trigger)
         THEN [kind |-> "Button", text |-> props.triggerText]
         ELSE [kind |-> "trigger", text |-> ""]
    ELSE NoTrigger

OpenChangeCall(open) == [kind |-> "onOpenChange", open |-> open]
OnCloseCall == [kind |-> "onClose"]
OnConfirmCall == [kind |-> "onConfirm"]
StopPropagation == [kind |-> "stopPropagation"]

\* <Dialog open={open} onOpenChange={onOpenChange}>: the content is shown
\* when the open prop is true or, with no open prop, when the Dialog's own
\* state is
contentShown ==
    /\ confirmationDialog.mounted
    /\ IF confirmationDialog.props.open = Undefined
       THEN confirmationDialog.isOpen
       ELSE confirmationDialog.props.open = "true"

\* the Dialog asks to be opened or closed
requestOpenChange(open) ==
    IF confirmationDialog.props.onOpenChange = Undefined THEN <<>> ELSE <<OpenChangeCall(open)>>

\* the parent renders the dialog with these props
ConfirmationDialog(props) ==
    /\ confirmationDialog' =
            ConfirmationDialogState(TRUE, props, triggerElement(props), confirmationDialog.isOpen)
    /\ op' = Op("ConfirmationDialog", props.open)
    /\ out' = <<>>
    /\ ChatInputIdle
    /\ UNCHANGED <<promptsPage, projectsPage>>

\* a click on the rendered trigger
ConfirmationDialog_triggerClick ==
    /\ confirmationDialog.mounted
    /\ confirmationDialog.rendered # NoTrigger
    /\ ~contentShown
    /\ confirmationDialog' =
            [confirmationDialog EXCEPT
                !.isOpen = IF confirmationDialog.props.open = Undefined THEN TRUE ELSE @]
    /\ op' = Op("ConfirmationDialog.trigger", confirmationDialog.rendered.kind)
    /\ out' = requestOpenChange(TRUE)
    /\ ChatInputIdle
    /\ UNCHANGED <<promptsPage, projectsPage>>

\* a click on Cancel or Confirm: the button's handler, then DialogClose
ConfirmationDialog_buttonClick(title) ==
    /\ contentShown
    /\ confirmationDialog' =
            [confirmationDialog EXCEPT
                !.isOpen = IF confirmationDialog.props.open = Undefined THEN FALSE ELSE @]
    /\ op' = Op("ConfirmationDialog.click", title)
    /\ out' = <<StopPropagation, IF title = "Cancel" THEN OnCloseCall ELSE OnConfirmCall>>
               \o requestOpenChange(FALSE)
    /\ ChatInputIdle
    /\ UNCHANGED <<promptsPage, projectsPage>>

(***************************************************************************)
(* The whole controller, and its components.  The cells fall into groups   *)
(* that only meet in a few handlers (submit and the session effect clear   *)
(* several at once), so each component is explored in a specification of   *)
(* its own: the handlers of the component, the environment they depend on  *)
(* and the handlers of other components that write its cells.              *)
(***************************************************************************)
SessionEnv ==
    \/ BeginResponding
    \/ handleCancel
    \/ EndResponding

RouterEnv ==
    \E sid \in {NoSession} \cup Sessions, state \in {EmptyState} \cup RouterStates :
        Navigate(sid, state)

SessionSwitch == \E sid \in {NoSession} \cup Sessions : Navigate(sid, EmptyState)

DraftHandlers ==
    \/ TypeChar
    \/ DeleteChar
    \/ \E promptText \in ProcessedPrompts, p \in 0..Len(inputValue) : handlePromptSelect(promptText, p)
    \/ \E context \in Transcripts : handleChatCommand("create-template", context)
    \/ promptsCommandClose
    \/ \E processedPrompt \in ProcessedPrompts : handleVariableSubmit(processedPrompt)
    \/ variableDialogClose
    \/ \E text \in TranscribedTexts : handleTranscription(text)

SubmitHandlers ==
    \/ sendMessageClick
    \/ onKeyDown
    \/ onSubmitResume
    \/ onSubmitThrow
    \/ \E text \in SelectionTexts, prompt \in FollowUpPrompts, autoSubmit \in BOOLEAN :
          handleFollowUp(text, prompt, autoSubmit)
    \/ followUpTimer
    \/ followUpResume
    \/ followUpThrow

FileHandlers ==
    \/ handleFileSelect
    \/ \E files \in PickerBatches : handleFileChange(files)
    \/ \E files \in FileBatches : handleFilesDropped(files)
    \/ \E index \in 0..(Len(selectedFiles) - 1) : handleRemoveFile(index)
    \/ pasteFiles

PasteHandlers ==
    \/ pasteText
    \/ \E title \in Titles, fileType \in FileTypes : handleSaveAsArtifact(title, fileType)
    \/ \E result \in {"null", "error"} : uploadFailed(result)
    \/ uploadThrow
    \/ \E uri \in Uris, sid \in {NoSession} \cup Sessions : uploadSucceeded(uri, sid)
    \/ refetchResume
    \/ refetchThrow
    \/ handleCancelArtifactForm
    \/ \E id \in 1..MaxItems : handleRemovePastedArtifact(id)

NextAll == SessionEnv \/ RouterEnv \/ DraftHandlers \/ SubmitHandlers \/ FileHandlers \/ PasteHandlers

SpecAll == Init /\ [][NextAll]_vars

\* Values of cells that another component's handlers produce
AttachedFiles == {<<>>, <<FileA>>, <<FileA, FileB>>}
SavedItems == {<<>>, <<[id |-> 1, artifactId |-> "u1", filename |-> "t1"]>>}

\* Compose and submit: the draft, the context, the submit paths
InitSubmit ==
    \E files \in AttachedFiles, items \in SavedItems :
        Composed("s1", EmptyState, files, items, Null)

NextSubmit ==
    \/ SessionEnv
    \/ TypeChar
    \/ DeleteChar
    \/ \E index \in 0..(Len(selectedFiles) - 1) : handleRemoveFile(index)
    \/ SubmitHandlers

SpecSubmit == InitSubmit /\ [][NextSubmit]_vars

\* Session and router: the effect, the popover and the variable dialog
InitSession ==
    \E sid \in {NoSession} \cup Sessions, state \in {EmptyState} \cup RouterStates,
       items \in SavedItems :
        Composed(sid, state, <<>>, items, Null)

NextSession == RouterEnv \/ DraftHandlers

SpecSession == InitSession /\ [][NextSession]_vars

\* Attachments: picker, drop, file paste, the submit that clears them and the
\* session switch that might
NextFiles ==
    \/ SessionEnv
    \/ SessionSwitch
    \/ FileHandlers
    \/ sendMessageClick
    \/ onSubmitResume
    \/ onSubmitThrow

SpecFiles == Init /\ [][NextFiles]_vars

\* Text paste and the paste-artifact dialog
NextPaste ==
    \/ BeginResponding
    \/ EndResponding
    \/ SessionSwitch
    \/ PasteHandlers

SpecPaste == Init /\ [][NextPaste]_vars

\* The paste-artifact dialog alone, where the upload and the refetch that
\* handleSaveAsArtifact awaits complete or fail
UploadCompletes ==
    \/ \E result \in {"null", "error"} : uploadFailed(result)
    \/ uploadThrow
    \/ \E uri \in Uris, sid \in {NoSession} \cup Sessions : uploadSucceeded(uri, sid)

RefetchCompletes == refetchResume \/ refetchThrow

SpecSaveFair ==
    /\ Init
    /\ [][PasteHandlers]_vars
    /\ WF_vars(UploadCompletes)
    /\ WF_vars(RefetchCompletes)

\* The network-backed operations together: submit and artifact upload, with
\* the events that fill the draft and the pending paste
InitNetwork == \E sid \in {NoSession} \cup Sessions : Mount(sid, EmptyState)

NextNetwork ==
    \/ BeginResponding
    \/ EndResponding
    \/ pasteText
    \/ SubmitHandlers
    \/ \E title \in Titles, fileType \in FileTypes : handleSaveAsArtifact(title, fileType)
    \/ UploadCompletes
    \/ RefetchCompletes

SpecNetwork == InitNetwork /\ [][NextNetwork]_vars

\* The draft and the slash-command popover alone, line breaks included
InitTyping == \E sid \in {NoSession} \cup Sessions : Mount(sid, EmptyState)

NextTyping ==
    \/ TypeChar
    \/ TypeNewline
    \/ DeleteChar
    \/ \E promptText \in ProcessedPrompts, p \in 0..Len(inputValue) : handlePromptSelect(promptText, p)
    \/ \E context \in Transcripts : handleChatCommand("create-template", context)
    \/ promptsCommandClose
    \/ \E text \in TranscribedTexts : handleTranscription(text)

SpecTyping == InitTyping /\ [][NextTyping]_vars

\* "Use in Chat": the Prompts page, and the chat input it navigates to
InitUseInChat ==
    \E sid \in {NoSession} \cup Sessions :
        /\ Composed(sid, EmptyState, <<>>, <<>>, Null)

ChatMounted == ~promptsPage.mounted

FetchCompletes ==
    \E i \in 1..Len(promptsPage.requests), result \in Results :
        \E data \in IF result = "ok" THEN ServerLists ELSE {<<>>} :
            PromptsPage_fetchResponse(i, result, data)

NextUseInChat ==
    \/ openPromptsPage
    \/ FetchCompletes
    \/ \E prompt \in PromptGroups : PromptsPage_handleUseInChat(prompt)
    \/ \E processedPrompt \in PageProcessedPrompts : PromptsPage_handleVariableSubmit(processedPrompt)
    \/ PromptsPage_variableDialogClose
    \/ ChatMounted /\ (\E processedPrompt \in PageProcessedPrompts : handleVariableSubmit(processedPrompt))
    \/ ChatMounted /\ variableDialogClose
    \/ ChatMounted /\ TypeChar
    \/ ChatMounted /\ SessionSwitch

SpecUseInChat == InitUseInChat /\ [][NextUseInChat]_vars

\* The prompt library: the list and the pins of its cards
NextPins ==
    \/ openPromptsPage
    \/ PromptsPage_refresh
    \/ FetchCompletes
    \/ \E id \in {"g1", "g2"}, currentStatus \in BOOLEAN : PromptsPage_handleTogglePin(id, currentStatus)
    \/ \E i \in 1..Len(promptsPage.requests), result \in Results : PromptsPage_pinResponse(i, result)

SpecPins == Mount("s1", EmptyState) /\ [][NextPins]_vars

\* The prompt library: deletion, from the cards and from the version history
NextDeletes ==
    \/ openPromptsPage
    \/ FetchCompletes
    \/ \E g \in PromptGroups : PromptsPage_handleDeleteClick(g.id, g.name)
    \/ PromptsPage_deleteDialogClose
    \/ PromptsPage_handleDeleteConfirm
    \/ \E i \in 1..Len(promptsPage.requests), result \in Results : PromptsPage_deleteResponse(i, result)
    \/ \E g \in PromptGroups : PromptsPage_viewVersions(g.id)
    \/ \E i \in 1..Len(promptsPage.requests), result \in Results, g \in PromptGroups :
          PromptsPage_loadGroupResponse(i, result, g)
    \/ PromptsPage_backToList

SpecDeletes == Mount("s1", EmptyState) /\ [][NextDeletes]_vars

\* One ConfirmationDialog under a parent that passes it any props
NextConfirmationDialog ==
    \/ \E props \in ConfirmationDialogProps : ConfirmationDialog(props)
    \/ ConfirmationDialog_triggerClick
    \/ \E title \in {"Cancel", "Confirm"} : ConfirmationDialog_buttonClick(title)

SpecConfirmationDialog == Mount("s1", EmptyState) /\ [][NextConfirmationDialog]_vars

(***************************************************************************)
(* ProjectsPage.                                                           *)
(***************************************************************************)
ContextCall(name, arg) == [kind |-> name, arg |-> arg]

\* selectedProject: projects.find(p => p.id === loaderData?.projectId) || null
selectedProject(page) == IF page.projectId \in Projects THEN page.projectId ELSE NoProject

\* the route changes within the page: loaderData.projectId is replaced, the
\* cells are kept
ProjectsPage_route(name, projectId) ==
    /\ projectsPage' = [projectsPage EXCEPT !.projectId = projectId]
    /\ op' = Op(name, projectId)
    /\ out' = <<NavigateCall(<<"/projects", projectId>>, EmptyState)>>
    /\ ChatInputIdle
    /\ UNCHANGED <<promptsPage, confirmationDialog>>

\* a step of the page that only writes its cells and calls the contexts
ProjectsPage_step(name, arg, page, calls) ==
    /\ projectsPage' = page
    /\ op' = Op(name, arg)
    /\ out' = calls
    /\ ChatInputIdle
    /\ UNCHANGED <<promptsPage, confirmationDialog>>

\* the page is left: its cells are gone, its requests stay in flight, the
\* ProjectContext keeps the active project
LeaveProjectsPage(page, requests) ==
    ProjectsPageState(FALSE, NoProject, page.activeProject, Orphaned(requests))

\* the user leaves the chat view for /projects or /projects/:projectId
openProjectsPage(projectId) ==
    /\ ~promptsPage.mounted /\ ~projectsPage.mounted
    /\ ProjectsPage_step("openProjectsPage", projectId,
            ProjectsPageState(TRUE, projectId, projectsPage.activeProject,
                              projectsPage.requests),
            <<NavigateCall(<<"/projects", projectId>>, EmptyState)>>)

\* the user leaves the page for the chat view by the navigation bar
closeProjectsPage ==
    /\ projectsPage.mounted
    /\ projectsPage' = LeaveProjectsPage(projectsPage, projectsPage.requests)
    /\ op' = Op("closeProjectsPage", "")
    /\ out' = <<NavigateCall("/chat", EmptyState)>>
    /\ MountChatInput(sessionId, EmptyState)
    /\ UNCHANGED <<promptsPage, confirmationDialog>>

\* onProjectClick of ProjectCards, shown when no project is selected
ProjectsPage_handleProjectSelect(project) ==
    /\ projectsPage.mounted /\ selectedProject(projectsPage) = NoProject
    /\ ProjectsPage_route("ProjectsPage.handleProjectSelect", project)

\* onBack of ProjectDetailView, shown when a project is selected
ProjectsPage_handleBackToList ==
    /\ projectsPage.mounted /\ selectedProject(projectsPage) # NoProject
    /\ ProjectsPage_route("ProjectsPage.handleBackToList", NoProject)

\* onCreateNew of ProjectCards
ProjectsPage_handleCreateNew ==
    /\ projectsPage.mounted /\ selectedProject(projectsPage) = NoProject
    /\ ProjectsPage_step("ProjectsPage.handleCreateNew", "",
            [projectsPage EXCEPT !.showCreateDialog = TRUE], <<>>)

\* onClose of CreateProjectDialog
ProjectsPage_createDialogClose ==
    /\ projectsPage.mounted /\ projectsPage.showCreateDialog
    /\ ProjectsPage_step("ProjectsPage.createDialogClose", "",
            [projectsPage EXCEPT !.showCreateDialog = FALSE], <<>>)

\* handleCreateProject up to `await createProject(formData)`; onSubmit of the
\* dialog that is open and was handed isSubmitting = false
ProjectsPage_handleCreateProject ==
    /\ projectsPage.mounted
    /\ projectsPage.showCreateDialog /\ ~projectsPage.isCreating
    /\ Len(projectsPage.requests) < MaxRequests
    /\ ProjectsPage_step("ProjectsPage.handleCreateProject", "",
            [projectsPage EXCEPT !.isCreating = TRUE,
                                 !.requests = Append(@, Request("createProject", "", FALSE))],
            <<ContextCall("createProject", "")>>)

\* createProject resolved: setShowCreateDialog(false), then up to `await refetch()`
ProjectsPage_createResolved(i, newProject) ==
    LET r == projectsPage.requests[i]
    IN  /\ r.kind = "createProject"
        /\ ProjectsPage_step("ProjectsPage.createResolved", [request |-> r, id |-> newProject],
                Settle(projectsPage, i, [projectsPage EXCEPT !.showCreateDialog = FALSE],
                       <<Request("refetch", newProject, r.orphan)>>),
                <<ContextCall("refetch", "")>>)

\* refetch resolved: navigate(`/projects/${newProject.id}`), then the finally;
\* the navigation of a handler whose page was left shows the page again
ProjectsPage_refetchResolved(i) ==
    LET r == projectsPage.requests[i]
        cells == IF ~r.orphan
                 THEN [projectsPage EXCEPT !.isCreating = FALSE, !.projectId = r.arg]
                 ELSE IF projectsPage.mounted
                 THEN [projectsPage EXCEPT !.projectId = r.arg]
                 ELSE ProjectsPageState(TRUE, r.arg, projectsPage.activeProject, <<>>)
    IN  /\ r.kind = "refetch"
        /\ projectsPage' = [cells EXCEPT !.requests = RemoveAt(projectsPage.requests, i)]
        /\ promptsPage' = IF promptsPage.mounted THEN LeavePromptsPage(promptsPage)
                          ELSE promptsPage
        /\ op' = Op("ProjectsPage.refetchResolved", [request |-> r])
        /\ out' = <<NavigateCall(<<"/projects", r.arg>>, EmptyState)>>
        /\ ChatInputIdle
        /\ UNCHANGED confirmationDialog

\* createProject or refetch rejected: only the finally runs, and the
\* rejection leaves the handler
ProjectsPage_createRejected(i) ==
    LET r == projectsPage.requests[i]
    IN  /\ r.kind \in {"createProject", "refetch"}
        /\ ProjectsPage_step("ProjectsPage.createRejected", [request |-> r],
                Settle(projectsPage, i, [projectsPage EXCEPT !.isCreating = FALSE], <<>>),
                <<>>)

\* onDelete of ProjectCards
ProjectsPage_handleDeleteClick(project) ==
    /\ projectsPage.mounted /\ selectedProject(projectsPage) = NoProject
    /\ ProjectsPage_step("ProjectsPage.handleDeleteClick", project,
            [projectsPage EXCEPT !.projectToDelete = project, !.isDeleteDialogOpen = TRUE],
            <<>>)

\* onClose of DeleteProjectDialog
ProjectsPage_deleteDialogClose ==
    /\ projectsPage.mounted /\ projectsPage.isDeleteDialogOpen
    /\ ProjectsPage_step("ProjectsPage.deleteDialogClose", "",
            [projectsPage EXCEPT !.isDeleteDialogOpen = FALSE, !.projectToDelete = NoProject],
            <<>>)

\* handleDeleteConfirm up to `await deleteProject(projectToDelete.id)`;
\* onConfirm of the dialog that is open and was handed isDeleting = false
ProjectsPage_handleDeleteConfirm ==
    /\ projectsPage.mounted
    /\ projectsPage.isDeleteDialogOpen /\ ~projectsPage.isDeleting
    /\ Len(projectsPage.requests) < MaxRequests
    /\ IF projectsPage.projectToDelete = NoProject
       THEN ProjectsPage_step("ProjectsPage.handleDeleteConfirm", NoProject, projectsPage, <<>>)
       ELSE ProjectsPage_step("ProjectsPage.handleDeleteConfirm", projectsPage.projectToDelete,
                [projectsPage EXCEPT
                    !.isDeleting = TRUE,
                    !.requests = Append(@, Request("deleteProject",
                                                   projectsPage.projectToDelete, FALSE))],
                <<ContextCall("deleteProject", projectsPage.projectToDelete)>>)

\* deleteProject resolved: the dialog is closed, then the finally
ProjectsPage_deleteResolved(i) ==
    LET r == projectsPage.requests[i]
        cells == [projectsPage EXCEPT !.isDeleteDialogOpen = FALSE,
                                      !.projectToDelete = NoProject,
                                      !.isDeleting = FALSE]
    IN  /\ r.kind = "deleteProject"
        /\ ProjectsPage_step("ProjectsPage.deleteResolved", [request |-> r],
                Settle(projectsPage, i, cells, <<>>), <<>>)

\* mutant: a failed delete closes the dialog as a successful one does
ProjectsPage_deleteRejected_closesDialog(i) ==
    LET r == projectsPage.requests[i]
        cells == [projectsPage EXCEPT !.isDeleteDialogOpen = FALSE,
                                      !.projectToDelete = NoProject,
                                      !.isDeleting = FALSE]
    IN  /\ r.kind = "deleteProject"
        /\ ProjectsPage_step("ProjectsPage.deleteRejected", [request |-> r],
                Settle(projectsPage, i, cells, <<>>), <<ContextCall("console.error", "")>>)

\* deleteProject rejected: console.error, then the finally
ProjectsPage_deleteRejected(i) ==
    LET r == projectsPage.requests[i]
    IN  /\ r.kind = "deleteProject"
        /\ ProjectsPage_step("ProjectsPage.deleteRejected", [request |-> r],
                Settle(projectsPage, i, [projectsPage EXCEPT !.isDeleting = FALSE], <<>>),
                <<ContextCall("console.error", "")>>)

\* mutant: the chat view is entered before the new session is there
ProjectsPage_handleStartNewChat_navigatesFirst ==
    /\ projectsPage.mounted /\ selectedProject(projectsPage) # NoProject
    /\ Len(projectsPage.requests) < MaxRequests
    /\ ProjectsPage_step("ProjectsPage.handleStartNewChat", selectedProject(projectsPage),
            [projectsPage EXCEPT
                !.activeProject = selectedProject(projectsPage),
                !.requests = Append(@, Request("handleNewSession", NoSession, FALSE))],
            <<ContextCall("setActiveProject", selectedProject(projectsPage)),
              NavigateCall("chat", EmptyState),
              ContextCall("handleNewSession", TRUE)>>)

\* handleStartNewChat up to `await handleNewSession(true)`; onStartNewChat of
\* ProjectDetailView
ProjectsPage_handleStartNewChat ==
    /\ projectsPage.mounted /\ selectedProject(projectsPage) # NoProject
    /\ Len(projectsPage.requests) < MaxRequests
    /\ IF selectedProject(projectsPage) = NoProject
       THEN ProjectsPage_step("ProjectsPage.handleStartNewChat", NoProject, projectsPage, <<>>)
       ELSE ProjectsPage_step("ProjectsPage.handleStartNewChat", selectedProject(projectsPage),
                [projectsPage EXCEPT
                    !.activeProject = selectedProject(projectsPage),
                    !.requests = Append(@, Request("handleNewSession", NoSession, FALSE))],
                <<ContextCall("setActiveProject", selectedProject(projectsPage)),
                  ContextCall("handleNewSession", TRUE)>>)

\* handleChatClick up to `await handleSwitchSession(sessionId)`; onChatClick
\* of ProjectDetailView
ProjectsPage_handleChatClick(sid) ==
    LET selected == selectedProject(projectsPage)
    IN  /\ projectsPage.mounted /\ selected # NoProject
        /\ Len(projectsPage.requests) < MaxRequests
        /\ ProjectsPage_step("ProjectsPage.handleChatClick", sid,
                [projectsPage EXCEPT
                    !.activeProject = IF selected # NoProject THEN selected ELSE @,
                    !.requests = Append(@, Request("handleSwitchSession", sid, FALSE))],
                (IF selected # NoProject
                 THEN <<ContextCall("setActiveProject", selected)>> ELSE <<>>)
                    \o <<ContextCall("handleSwitchSession", sid)>>)

\* handleNewSession or handleSwitchSession resolved: the session is the new
\* one and navigate("chat") shows the chat view, where ChatInputArea mounts
\* unless it is shown already
ProjectsPage_sessionResolved(i) ==
    LET r == projectsPage.requests[i]
        cells == EffectCells(inputValue, showPromptsCommand, pastedArtifactItems,
                             contextText, pendingPromptGroup, showVariableDialog,
                             prevSessionIdRef, EmptyState)
    IN  /\ r.kind \in {"handleNewSession", "handleSwitchSession"}
        /\ projectsPage' = LeaveProjectsPage(projectsPage, RemoveAt(projectsPage.requests, i))
        /\ promptsPage' = IF promptsPage.mounted THEN LeavePromptsPage(promptsPage)
                          ELSE promptsPage
        /\ op' = Op("ProjectsPage.sessionResolved", [request |-> r])
        /\ IF promptsPage.mounted \/ projectsPage.mounted
           THEN /\ out' = <<NavigateCall("chat", EmptyState)>>
                /\ MountChatInput(r.arg, EmptyState)
           ELSE /\ out' = <<NavigateCall("chat", EmptyState)>> \o EffectCalls(cells)
                /\ sessionId' = r.arg
                /\ CommitEffects(cells, r.arg)
                /\ UNCHANGED <<ctxVars, fileVars, pasteVars, pending>>
                /\ Render
        /\ UNCHANGED confirmationDialog

\* handleNewSession or handleSwitchSession rejected: the rejection leaves the
\* handler before navigate("chat")
ProjectsPage_sessionRejected(i) ==
    LET r == projectsPage.requests[i]
    IN  /\ r.kind \in {"handleNewSession", "handleSwitchSession"}
        /\ ProjectsPage_step("ProjectsPage.sessionRejected", [request |-> r],
                [projectsPage EXCEPT !.requests = RemoveAt(@, i)], <<>>)

\* The projects page: creating and deleting projects
NextProjects ==
    \/ \E projectId \in Projects \cup {NoProject} : openProjectsPage(projectId)
    \/ closeProjectsPage
    \/ \E project \in Projects : ProjectsPage_handleProjectSelect(project)
    \/ ProjectsPage_handleBackToList
    \/ ProjectsPage_handleCreateNew
    \/ ProjectsPage_createDialogClose
    \/ ProjectsPage_handleCreateProject
    \/ \E i \in 1..Len(projectsPage.requests), newProject \in Projects :
          ProjectsPage_createResolved(i, newProject)
    \/ \E i \in 1..Len(projectsPage.requests) : ProjectsPage_refetchResolved(i)
    \/ \E i \in 1..Len(projectsPage.requests) : ProjectsPage_createRejected(i)
    \/ \E project \in Projects : ProjectsPage_handleDeleteClick(project)
    \/ ProjectsPage_deleteDialogClose
    \/ ProjectsPage_handleDeleteConfirm
    \/ \E i \in 1..Len(projectsPage.requests) : ProjectsPage_deleteResolved(i)
    \/ \E i \in 1..Len(projectsPage.requests) : ProjectsPage_deleteRejected(i)

SpecProjects == Mount("s1", EmptyState) /\ [][NextProjects]_vars

\* The projects page: the way from a project to the chat view
NextProjectChats ==
    \/ \E projectId \in Projects \cup {NoProject} : openProjectsPage(projectId)
    \/ closeProjectsPage
    \/ \E project \in Projects : ProjectsPage_handleProjectSelect(project)
    \/ ProjectsPage_handleBackToList
    \/ ProjectsPage_handleStartNewChat
    \/ \E sid \in Sessions : ProjectsPage_handleChatClick(sid)
    \/ \E i \in 1..Len(projectsPage.requests) : ProjectsPage_sessionResolved(i)
    \/ \E i \in 1..Len(projectsPage.requests) : ProjectsPage_sessionRejected(i)

SpecProjectChats == Mount("s1", EmptyState) /\ [][NextProjectChats]_vars

\* The two dialogs of the chat input: every handler and effect that writes
\* a dialog flag or its payload
NextDialogs ==
    \/ \E sid \in Sessions, state \in {EmptyState} \cup RouterStates : Navigate(sid, state)
    \/ \E processedPrompt \in ProcessedPrompts : handleVariableSubmit(processedPrompt)
    \/ variableDialogClose
    \/ pasteText
    \/ \E fileType \in FileTypes : handleSaveAsArtifact("t1", fileType)
    \/ UploadCompletes
    \/ RefetchCompletes
    \/ handleCancelArtifactForm

SpecDialogs == Mount("s1", EmptyState) /\ [][NextDialogs]_vars

\* The pins alone: the list as the backend holds it, the toggles of the
\* cards and their responses
BackendLists ==
    {list \in ServerLists :
        \A k \in 1..Len(list) : list[k].is_pinned = (list[k].id \in promptsPage.pinnedAtBackend)}

NextPinToggles ==
    \/ openPromptsPage
    \/ \E i \in 1..Len(promptsPage.requests), result \in Results :
          \E data \in IF result = "ok" THEN BackendLists ELSE {<<>>} :
              PromptsPage_fetchResponse(i, result, data)
    \/ \E id \in {"g1", "g2"}, currentStatus \in BOOLEAN : PromptsPage_handleTogglePin(id, currentStatus)
    \/ \E i \in 1..Len(promptsPage.requests), result \in Results : PromptsPage_pinResponse(i, result)

SpecPinToggles == Mount("s1", EmptyState) /\ [][NextPinToggles]_vars

(***************************************************************************)
(* Claims.                                                                 *)
(***************************************************************************)
SubmitIssued(o) == Len(Calls(o, "handleSubmit")) > 0

\* C1: the controller never calls the Session submit operation (handleSubmit)
\* in a step that starts while isResponding is true, whichever path issues the
\* call: the Send button, the Enter key or the follow-up auto-submit timer.
C1_NoSubmitWhileResponding ==
    [][SubmitIssued(out') => ~isResponding]_vars

\* C2: in every state the memoised isSubmittingEnabled is truthy exactly when
\* the input is not responding and the trimmed draft is non-empty or a file is
\* selected; and a Send click or Enter that starts while it is falsy issues no
\* submit call.
C2_EnabledIffNotRespondingAndContent ==
    /\ [](Truthy(isSubmittingEnabled) <=>
            (~isResponding /\ (Trim(inputValue) # <<>> \/ Len(selectedFiles) > 0)))
    /\ [][(~Truthy(isSubmittingEnabled) /\ op'.name \in {"sendMessageClick", "onKeyDown"})
            => ~SubmitIssued(out')]_vars

\* C2 witness: Enter was pressed on a draft of whitespace only with no file
\* selected while not responding; submission was disabled and nothing was sent.
C2_Witness ==
    /\ op.name = "onKeyDown"
    /\ out = <<>>
    /\ ~isResponding
    /\ inputValue # <<>> /\ Trim(inputValue) = <<>>
    /\ selectedFiles = <<>>
    /\ ~Truthy(isSubmittingEnabled)

\* C3: when the handleSubmit call of an enabled onSubmit has returned, the
\* draft, the Selected File Set and the pasted-artifact badges are empty and
\* the context is null.
C3_SubmitLeavesInputPristine ==
    op.name = "onSubmitResume" =>
        /\ inputValue = <<>>
        /\ selectedFiles = <<>>
        /\ pastedArtifactItems = <<>>
        /\ contextText = Null

\* C3 witness: the call returned in a state where all four cells were filled.
C3_Witness ==
    /\ op = Op("onSubmitResume", "all cells filled")
    /\ inputValue = <<>> /\ selectedFiles = <<>> /\ pastedArtifactItems = <<>>
    /\ contextText = Null

\* C4: no two entries of the Selected File Set carry the same
\* (name, size, lastModified) triple, whatever picker, paste and drop events
\* delivered and whatever each batch held.
C4_NoDuplicateTriples ==
    \A i, j \in 1..Len(selectedFiles) :
        i # j => ~SameFile(selectedFiles[i], selectedFiles[j])

\* C5: a paste of a text that isLargeText classifies as large never changes
\* the draft: the default is prevented, the text becomes the pending paste
\* content and the artifact dialog opens; a paste of a smaller text prevents
\* nothing and leaves the pending paste content as it was.
C5_LargePasteNeverReachesDraft ==
    [][(op'.name = "handlePaste" /\ TruthyText(op'.arg)) =>
          IF isLargeText(op'.arg)
          THEN /\ inputValue' = inputValue
               /\ Calls(out', "preventDefault") # <<>>
               /\ pendingPasteContent' = op'.arg
               /\ showArtifactForm'
          ELSE /\ Calls(out', "preventDefault") = <<>>
               /\ pendingPasteContent' = pendingPasteContent]_vars

UploadFailures == {"uploadFailed", "uploadThrow"}
SaveFinishers == UploadFailures \cup {"refetchResume", "refetchThrow"}

\* C6: when handleSaveAsArtifact ends on a failed upload (an error object,
\* nothing, or an exception), the pending paste content is null, the dialog is
\* closed, the handler has emitted exactly one notification, an error, no
\* badge was appended and no refetch was requested.
C6_FailedSaveCleansUp ==
    [][op'.name \in UploadFailures =>
          /\ pendingPasteContent' = Null
          /\ ~showArtifactForm'
          /\ Calls(out', "addNotification") = <<Notification("error")>>
          /\ pastedArtifactItems' = pastedArtifactItems
          /\ Calls(out', "artifactsRefetch") = <<>>]_vars

\* C6 witness: an upload returned an error object and the handler cleaned up.
C6_Witness ==
    /\ op.name = "uploadFailed" /\ op.arg = "error"
    /\ pendingPasteContent = Null /\ ~showArtifactForm
    /\ out = <<Notification("error")>>

\* C7: every handleSaveAsArtifact that has issued its upload eventually ends,
\* on whichever path, with the pending paste content null and the dialog
\* closed, given that the upload and the refetch complete or fail.
C7_SaveAlwaysClearsPendingPaste ==
    (InFlight("upload") # {} \/ InFlight("refetch") # {}) ~>
        (op.name \in SaveFinishers /\ pendingPasteContent = Null /\ ~showArtifactForm)

\* C7 witness: the refetch after a successful upload threw, and the handler
\* ended with the pending paste cleared.
C7_Witness ==
    /\ op.name = "refetchThrow"
    /\ pendingPasteContent = Null /\ ~showArtifactForm
    /\ pastedArtifactItems # <<>>

DefinedChange == sessionId \in Sessions /\ sessionId' \in Sessions /\ sessionId' # sessionId
FirstAssignment == sessionId = NoSession /\ sessionId' \in Sessions

C9_SessionChangeResetsAll ==
    [][DefinedChange =>
          /\ selectedFiles' = <<>>
          /\ pendingPasteContent' = Null
          /\ inputValue' = <<>>
          /\ pastedArtifactItems' = <<>>]_vars

\* C10: a file-picked, file-dropped or paste event that arrives while
\* isResponding is true changes neither the Selected File Set nor the pending
\* paste content nor the artifact dialog's visibility.
C10_FileEventsIgnoredWhileResponding ==
    [][(isResponding /\ op'.name \in {"handleFileChange", "handleFilesDropped", "handlePaste"}) =>
          /\ selectedFiles' = selectedFiles
          /\ pendingPasteContent' = pendingPasteContent
          /\ showArtifactForm' = showArtifactForm]_vars

Overlays == <<showPromptsCommand, showVariableDialog, showArtifactForm>>
OpenOverlays == {i \in 1..Len(Overlays) : Overlays[i]}

\* C11: in every state at most one of the three overlays is open: the
\* Prompts-Command popover, the Variable dialog and the Paste-artifact dialog.
C11_AtMostOneOverlay == Cardinality(OpenOverlays) <= 1

\* C12: a handleSaveAsArtifact whose upload succeeds appends exactly one
\* Pasted Artifact Item after the existing items, with artifactId the returned
\* URI and filename the chosen title, leaves the existing items as they were,
\* emits one notification, a success, and requests exactly one refetch.
C12_SuccessfulSaveAppendsOneItem ==
    [][op'.name = "uploadSucceeded" =>
          /\ Len(pastedArtifactItems') = Len(pastedArtifactItems) + 1
          /\ SubSeq(pastedArtifactItems', 1, Len(pastedArtifactItems)) = pastedArtifactItems
          /\ pastedArtifactItems'[Len(pastedArtifactItems')].artifactId = op'.arg
          /\ \E p \in InFlight("upload") :
                /\ pending' = Finish(p) (+) SetToBag({Async("refetch", NoSession, "", Null, Null)})
                /\ pastedArtifactItems'[Len(pastedArtifactItems')].filename = p.title
          /\ Calls(out', "addNotification") = <<Notification("info")>>
          /\ Calls(out', "artifactsRefetch") = <<RefetchCall>>]_vars

UploadsIssued(o) == Len(Calls(o, "uploadArtifactFile"))
SubmitsIssued(o) == Len(Calls(o, "handleSubmit"))
NetworkFailures ==
    {"uploadFailed", "uploadThrow", "refetchThrow", "onSubmitThrow", "followUpThrow"}

\* C13: the controller never retries a network-backed operation.  An upload
\* request is issued only by a handleSaveAsArtifact step, one per step; a
\* submit call is issued only by a Send click, an Enter or a follow-up timer,
\* one per step, and exactly one by an enabled onSubmit; a step in which an
\* upload, a refetch or a submit fails issues neither and leaves nothing new
\* in flight.
C13_NoRetries ==
    [][/\ UploadsIssued(out') > 0 =>
            (op'.name = "handleSaveAsArtifact" /\ UploadsIssued(out') = 1)
       /\ SubmitsIssued(out') > 0 =>
            (op'.name \in {"sendMessageClick", "onKeyDown", "followUpTimer"}
             /\ SubmitsIssued(out') = 1)
       /\ (op'.name \in {"sendMessageClick", "onKeyDown"} /\ Truthy(isSubmittingEnabled)) =>
            SubmitsIssued(out') = 1
       /\ op'.name \in NetworkFailures =>
            /\ UploadsIssued(out') = 0
            /\ SubmitsIssued(out') = 0
            /\ BagCardinality(pending') = BagCardinality(pending) - 1]_vars

\* C13 witness: an upload threw; the handler ended with nothing in flight and
\* issued no further upload.
C13_Witness ==
    /\ op.name = "uploadThrow"
    /\ pending = EmptyBag
    /\ UploadsIssued(out) = 0
    /\ Calls(out, "addNotification") = <<Notification("error")>>

\* C14: a text change opens the popover when the character before the cursor
\* is "/" and the one before that is absent, a space or a line break; a text
\* change that leaves "/" right after a non-whitespace character does not
\* open it.
C14_SlashOpensPopover ==
    [][op'.name = "handleInputChange" =>
          \E p \in 0..Len(inputValue') :
              /\ op'.arg = ToString(p)
              /\ (p >= 1 /\ inputValue'[p] = "/" /\ (p = 1 \/ inputValue'[p - 1] \in {" ", "\n"}))
                    => showPromptsCommand'
              /\ (p >= 2 /\ inputValue'[p] = "/" /\ ~IsWhitespace(inputValue'[p - 1]))
                    => (showPromptsCommand' => showPromptsCommand)]_vars

\* C14 witness: "/" was typed right after a line break and the popover opened.
C14_Witness ==
    /\ op.name = "handleInputChange" /\ op.arg = "2"
    /\ inputValue = <<"\n", "/">>
    /\ showPromptsCommand

\* the positions of the last "/" among the first c characters of a text
LastSlashBefore(value, c) ==
    {i \in 1..c : value[i] = "/" /\ \A j \in (i + 1)..c : value[j] # "/"}

\* C15: handlePromptSelect(promptText) with a "/" before the cursor sets the
\* draft to the text before the last such "/", then promptText, then the text
\* after the cursor, and closes the popover; for the draft "hello /wor" with
\* the cursor at its end and the prompt "world!" the draft is "hello world!".
C15_PromptReplacesSlashSpan ==
    [][op'.name = "handlePromptSelect" =>
          /\ ~showPromptsCommand'
          /\ \A i \in LastSlashBefore(inputValue, op'.arg.cursorPosition) :
                inputValue' = SubSeq(inputValue, 1, i - 1) \o op'.arg.promptText
                                \o SubSeq(inputValue, op'.arg.cursorPosition + 1, Len(inputValue))
          /\ promptSelectText(<<"h", "e", "l", "l", "o", " ", "/", "w", "o", "r">>, 10,
                              <<"w", "o", "r", "l", "d", "!">>)
               = <<"h", "e", "l", "l", "o", " ", "w", "o", "r", "l", "d", "!">>]_vars

\* C15 witness: in the draft " /" with the cursor at its end the prompt "a"
\* was chosen; the draft is " a" and the popover is closed.
C15_Witness ==
    /\ op.name = "handlePromptSelect"
    /\ op.arg.cursorPosition = 2 /\ op.arg.promptText = <<"a">>
    /\ inputValue = <<" ", "a">>
    /\ ~showPromptsCommand

\* the suffix "\n\nContext: \"<context>\"" of a message, written out
ContextSuffix(context) ==
    <<"\n", "\n", "C", "o", "n", "t", "e", "x", "t", ":", " ", "\"">> \o context \o <<"\"">>

\* C16: an enabled onSubmit hands the Session submit operation the trimmed
\* draft, followed by the context suffix exactly when a context is pending,
\* and the Selected File Set as it is, in its order.
C16_SubmitMessageAndFiles ==
    [][(op'.name \in {"sendMessageClick", "onKeyDown"} /\ Truthy(isSubmittingEnabled)) =>
          Calls(out', "handleSubmit") =
              <<[kind |-> "handleSubmit",
                 files |-> selectedFiles,
                 message |-> Trim(inputValue) \o
                             (IF contextText # Null THEN ContextSuffix(contextText) ELSE <<>>)]>>]_vars

\* C16 witness: Send was clicked with the draft "a ", the context "q" and two
\* files; the message is a\n\nContext: "q" and the files are the two, in order.
C16_Witness ==
    /\ op.name = "sendMessageClick"
    /\ inputValue = <<"a", " ">> /\ contextText = <<"q">>
    /\ selectedFiles = <<FileA, FileB>>
    /\ Calls(out, "handleSubmit") =
          <<SubmitCall(<<FileA, FileB>>, <<"a">> \o ContextSuffix(<<"q">>))>>

ReplaceCalls(o) == SelectSeq(Calls(o, "navigate"), LAMBDA c : c.to = "location.pathname")

\* C17: a prompt carried in router state is applied at most once.  The step
\* that consumes it replaces the router state by the empty state, with one
\* replace call; no state keeps a prompt in the router state; and a later run
\* of the effect that finds no prompt (a session change) neither puts a
\* prompt into the draft nor opens the variable dialog.
C17_RouterPromptConsumedOnce ==
    [][/\ locationState'.promptText = Null
       /\ op'.name = "navigate" =>
            /\ Len(ReplaceCalls(out')) <= 1
            /\ \A i \in 1..Len(ReplaceCalls(out')) : ReplaceCalls(out')[i].state = EmptyState
            /\ ReplaceCalls(out') = <<>> =>
                  /\ inputValue' \in {inputValue, <<>>}
                  /\ showVariableDialog' = showVariableDialog
                  /\ pendingPromptGroup' = pendingPromptGroup
       /\ (showVariableDialog' /\ ~showVariableDialog) => Len(ReplaceCalls(out')) = 1]_vars

\* C17 witness: a navigation carried the plain prompt "a"; it is in the draft,
\* the router state is empty and one replace call was made.
C17_Witness ==
    /\ op.name = "navigate"
    /\ out = <<NavigateCall("location.pathname", EmptyState)>>
    /\ inputValue = <<"a">>
    /\ locationState = EmptyState

HasVariables(promptText) == promptText # Null /\ detectVariables(promptText) # {}
ChatNavigations(o) == SelectSeq(Calls(o, "navigate"), LAMBDA c : c.to = "/chat")

\* C18: a template in which detectVariables finds a variable is never used
\* as it is.  On the Prompts page "Use in Chat" of such a template makes no
\* navigation and opens the page's variable dialog with that group; a
\* navigation to the chat carries the text of a template without variables or
\* the text the page's dialog submitted.  In the chat input a router-carried
\* prompt with a variable is not put into the draft and opens the variable
\* dialog with that prompt; a draft comes to hold a variable only as the text
\* the chat's dialog submitted.
C18_TemplatesNeverUsedAsIs ==
    [][/\ \A g \in PromptGroups :
            (op'.name = "PromptsPage.handleUseInChat" /\ op'.arg = g.id
             /\ HasVariables(g.prompt_text)) =>
                /\ Calls(out', "navigate") = <<>>
                /\ promptsPage'.mounted /\ promptsPage'.showVariableDialog
                /\ promptsPage'.pendingPromptGroup = g
                /\ inputValue' = inputValue
       /\ \A i \in 1..Len(ChatNavigations(out')) :
            LET state == ChatNavigations(out')[i].state
            IN  /\ \/ /\ op'.name = "PromptsPage.handleVariableSubmit"
                      /\ state.promptText = op'.arg
                   \/ /\ op'.name = "PromptsPage.handleUseInChat"
                      /\ ~HasVariables(state.promptText)
                /\ HasVariables(state.promptText) =>
                      /\ inputValue' = <<>>
                      /\ showVariableDialog'
                      /\ pendingPromptGroup' = [id |-> state.groupId, name |-> state.groupName,
                                                prompt_text |-> state.promptText]
       /\ (HasVariables(inputValue') /\ ~HasVariables(inputValue)) =>
            (op'.name = "handleVariableSubmit" /\ inputValue' = op'.arg)]_vars

\* C18 witness: "Use in Chat" was clicked on the template with a variable; the
\* page's dialog is open with that group and no navigation was made.
C18_Witness ==
    /\ op.name = "PromptsPage.handleUseInChat" /\ op.arg = "g2"
    /\ promptsPage.mounted /\ promptsPage.showVariableDialog
    /\ promptsPage.pendingPromptGroup.id = "g2"
    /\ out = <<>>

\* C19: handleChatCommand("create-template", context) issues no submit call;
\* its one call is a navigation to the template-authoring route whose message
\* is the generic sentence when no transcript is supplied and otherwise holds
\* the transcript between the conversation_history marks; afterwards the
\* draft is empty and the popover is closed.
C19_CreateTemplateNavigates ==
    [][op'.name = "handleChatCommand" =>
          /\ Len(out') = 1
          /\ out'[1].kind = "navigate"
          /\ out'[1].to = "/prompts/new?mode=ai-assisted"
          /\ IF TruthyText(op'.arg)
             THEN \E i \in 1..Len(out'[1].state) :
                     /\ out'[1].state[i] = "<conversation_history>"
                     /\ SubSeq(out'[1].state, i + 1, i + Len(op'.arg)) = op'.arg
                     /\ out'[1].state[i + Len(op'.arg) + 1] = "</conversation_history>"
             ELSE out'[1].state = <<"Help me create a new prompt template.">>
          /\ pending' = pending
          /\ inputValue' = <<>>
          /\ ~showPromptsCommand']_vars

\* C19 witness: the command was chosen with a transcript; one navigation was
\* made, the draft is empty and the popover is closed.
C19_Witness ==
    /\ op.name = "handleChatCommand"
    /\ op.arg = <<"user: a", "assistant: a">>
    /\ Len(out) = 1 /\ out[1].to = "/prompts/new?mode=ai-assisted"
    /\ inputValue = <<>> /\ ~showPromptsCommand

\* texts joined by single spaces
RECURSIVE JoinWithSpaces(_)
JoinWithSpaces(texts) ==
    IF texts = <<>> THEN <<>>
    ELSE IF Len(texts) = 1 THEN texts[1]
    ELSE texts[1] \o <<" ">> \o JoinWithSpaces(Tail(texts))

\* C20: handleTranscription(text) sets the draft to draft + " " + text when
\* the draft is non-empty and to text when it is empty; and after
\* transcriptions t1..tn delivered in a row to an empty draft the draft is
\* t1, ..., tn joined by single spaces.
C20_TranscriptionsAppend ==
    /\ [][op'.name = "handleTranscription" =>
            LET text == op'.arg.texts[Len(op'.arg.texts)]
            IN  inputValue' = IF inputValue # <<>> THEN inputValue \o <<" ">> \o text ELSE text]_vars
    /\ []((op.name = "handleTranscription" /\ op.arg.from = <<>>) =>
            inputValue = JoinWithSpaces(op.arg.texts))

\* C20 witness: three transcriptions in a row on an empty draft.
C20_Witness ==
    /\ op.name = "handleTranscription"
    /\ op.arg.from = <<>> /\ op.arg.texts = <<<<"a">>, <<"b">>, <<"a">>>>
    /\ inputValue = <<"a", " ", "b", " ", "a">>

\* C21: ConfirmationDialog's precedence is open/onOpenChange > trigger >
\* triggerText: with open and onOpenChange both passed no trigger element is
\* rendered, whether open is true or false; otherwise, with trigger and
\* triggerText both passed, the trigger is rendered and triggerText is ignored.
C21_ConfigurationPrecedence ==
    LET props == confirmationDialog.props
        controlled == props.open # Undefined /\ props.onOpenChange # Undefined
    IN  confirmationDialog.mounted =>
            /\ controlled => confirmationDialog.rendered = NoTrigger
            /\ (~controlled /\ ~Nullish(props.trigger) /\ props.triggerText # Undefined)
                   => confirmationDialog.rendered = [kind |-> "trigger", text |-> ""]

\* C22: a badge only appears in the input of the session its upload was
\* issued for: an upload issued under one session that succeeds while another
\* session is the active one adds no badge to the input.
C22_BadgeOnlyInItsSession ==
    [][op'.name = "uploadSucceeded" =>
          \A p \in InFlight("upload") :
              (/\ pending' = Finish(p) (+) SetToBag({Async("refetch", NoSession, "", Null, Null)})
               /\ p.sid \in Sessions
               /\ sessionId \in Sessions
               /\ sessionId # p.sid)
              => Len(pastedArtifactItems') <= Len(pastedArtifactItems)]_vars

\* C23: a text change while the popover is open closes it when the text
\* before the cursor contains no "/" and leaves it open when that text
\* contains a "/" anywhere; a text change for which the open rule fires
\* never leaves the popover closed.
C23_PopoverCloseRule ==
    [][op'.name = "handleInputChange" =>
          \E p \in 0..Len(inputValue') :
              LET textBeforeCursor == Substring(inputValue', 0, p)
                  openRule == /\ p >= 1 /\ inputValue'[p] = "/"
                              /\ (p = 1 \/ inputValue'[p - 1] \in {" ", "\n"})
              IN  /\ op'.arg = ToString(p)
                  /\ (showPromptsCommand /\ ~Includes(textBeforeCursor, "/"))
                        => ~showPromptsCommand'
                  /\ (showPromptsCommand /\ Includes(textBeforeCursor, "/"))
                        => showPromptsCommand'
                  /\ openRule => showPromptsCommand']_vars

\* C23 witness: the popover was opened by "/" and a character typed behind
\* the "/" left it open (the open rule does not fire for that change).
C23_Witness ==
    /\ op.name = "handleInputChange" /\ op.arg = "2"
    /\ inputValue = <<"/", "a">>
    /\ showPromptsCommand

\* C24: a follow-up-question event sets the context to the selected text and,
\* with a prompt, the draft to prompt + " "; it issues no submit itself.  With
\* a prompt and autoSubmit it arms one timer, which issues exactly one submit
\* of prompt + '\n\nContext: "<text>"' with an empty file list, and when that
\* call returns the context is null and the draft empty.  Without a prompt
\* no timer is armed, so no submit is issued.
C24_FollowUpQuestion ==
    [][/\ op'.name = "handleFollowUp" =>
            LET e == op'.arg
                armed == Async("followUpTimer", NoSession, "", e.prompt, e.text)
            IN  /\ contextText' = e.text
                /\ TruthyText(e.prompt) => inputValue' = e.prompt \o <<" ">>
                /\ SubmitsIssued(out') = 0
                /\ pending' = IF TruthyText(e.prompt) /\ e.autoSubmit
                              THEN pending (+) SetToBag({armed})
                              ELSE pending
       /\ op'.name = "followUpTimer" =>
            \E p \in InFlight("followUpTimer") :
                /\ TruthyText(p.prompt)
                /\ out' = <<SubmitCall(<<>>, p.prompt \o ContextPrefix \o p.text \o <<"\"">>)>>
                /\ pending' = (pending (-) SetToBag({p}))
                               (+) SetToBag({Async("followUpSubmit", NoSession, "", Null, Null)})
       /\ op'.name = "followUpResume" =>
            /\ contextText' = Null
            /\ inputValue' = <<>>
            /\ SubmitsIssued(out') = 0
       /\ (SubmitsIssued(out') > 0 /\ op'.name \notin {"sendMessageClick", "onKeyDown"})
            => op'.name = "followUpTimer"]_vars

\* C24 witness: the submit of an auto-submitted follow-up question returned,
\* and the context and the draft were cleared.
C24_Witness ==
    /\ op.name = "followUpResume"
    /\ contextText = Null
    /\ inputValue = <<>>
    /\ out = <<ScrollToBottom>>

\* C25: once a navigation that carries a prompt without variables has been
\* taken in and the effects have settled, the draft is that prompt, also when
\* the session id changed in the same navigation.
C25_RouterPromptSurvivesSessionChange ==
    [][\A sid \in {NoSession} \cup Sessions, state \in RouterStates :
          (~HasVariables(state.promptText) /\ Navigate(sid, state))
              => inputValue' = state.promptText]_vars

\* C26: cancel and send are never both available.  The Stop button is shown
\* exactly when isResponding is true and isCancelling is false and the Send
\* button exactly otherwise, and a Send button shown while isResponding is
\* true is disabled.
C26_StopOrSend ==
    /\ stopRendered <=> (isResponding /\ ~isCancelling)
    /\ sendMessageRendered <=> ~stopRendered
    /\ ~((stopRendered /\ ~stopDisabled) /\ (sendMessageRendered /\ ~sendMessageDisabled))
    /\ (isResponding /\ sendMessageRendered) => sendMessageDisabled

\* C26 witness: a cancel is under way while the backend still answers; the
\* Send button is shown, the draft has text, and the button is disabled.
C26_Witness ==
    /\ isResponding /\ isCancelling
    /\ sendMessageRendered /\ ~stopRendered
    /\ Trim(inputValue) # <<>>
    /\ sendMessageDisabled

\* the displayed groups differ at most in the is_pinned of the group `id`
OnlyPinOf(id, before, after) ==
    /\ Len(after) = Len(before)
    /\ \A k \in 1..Len(before) :
          \/ after[k] = before[k]
          \/ before[k].id = id /\ after[k] = [before[k] EXCEPT !.is_pinned = after[k].is_pinned]

\* C27: handleTogglePin(id, currentStatus) changes is_pinned only for the
\* group with that id.  When its PATCH fails (response not ok, or an
\* exception) the group's is_pinned ends equal to currentStatus and exactly
\* one notification, an error, is emitted; when it succeeds is_pinned ends
\* equal to the negation of currentStatus and exactly one notification, a
\* success, is emitted.
C27_TogglePinOutcome ==
    [][/\ op'.name = "PromptsPage.handleTogglePin" =>
            /\ OnlyPinOf(op'.arg.id, promptsPage.promptGroups, promptsPage'.promptGroups)
            /\ Calls(out', "addNotification") = <<>>
       /\ op'.name = "PromptsPage.pinResponse" =>
            LET id == op'.arg.request.arg.id
                currentStatus == op'.arg.request.arg.currentStatus
                ok == op'.arg.result = "ok"
            IN  /\ OnlyPinOf(id, promptsPage.promptGroups, promptsPage'.promptGroups)
                /\ \A k \in 1..Len(promptsPage'.promptGroups) :
                      promptsPage'.promptGroups[k].id = id =>
                          promptsPage'.promptGroups[k].is_pinned =
                              (IF ok THEN ~currentStatus ELSE currentStatus)
                /\ out' = <<Notification(IF ok THEN "success" ELSE "error")>>]_vars

\* C28: a handleDeleteConfirm that starts with a pending deletingPrompt sends
\* one DELETE and ends with deletingPrompt = null and exactly one
\* notification: a success only after a DELETE response that was ok, an error
\* after one that was not ok or after an exception.  The list is fetched
\* again only after an ok response, and a version-history view of the
\* deleted group is closed.  With no pending deletingPrompt the handler sends
\* nothing and changes nothing.
C28_DeleteConfirmOutcome ==
    [][/\ op'.name = "PromptsPage.handleDeleteConfirm" =>
            IF promptsPage.deletingPrompt = NullGroup
            THEN out' = <<>> /\ promptsPage' = promptsPage
            ELSE /\ out' = <<HttpCall("DELETE", <<"groups", promptsPage.deletingPrompt.id>>)>>
                 /\ promptsPage'.deletingPrompt = promptsPage.deletingPrompt
       /\ op'.name = "PromptsPage.deleteResponse" =>
            LET deleted == op'.arg.request.arg.deletingPrompt
            IN  IF op'.arg.result = "ok"
                THEN /\ out' = <<HttpCall("GET", <<"groups", "all">>)>>
                     /\ promptsPage.versionHistoryGroup.id = deleted.id
                            => promptsPage'.versionHistoryGroup = NullGroup
                ELSE /\ out' = <<Notification("error")>>
                     /\ promptsPage'.deletingPrompt = NullGroup
       /\ (op'.name = "PromptsPage.fetchResponse" /\ op'.arg.request.arg = "handleDeleteConfirm") =>
            /\ out' = <<Notification("success")>>
            /\ promptsPage'.deletingPrompt = NullGroup
       /\ Calls(out', "addNotification") # <<>> =>
            \/ op'.name = "PromptsPage.deleteResponse" /\ op'.arg.result # "ok"
            \/ op'.name = "PromptsPage.fetchResponse" /\ op'.arg.request.arg = "handleDeleteConfirm"]_vars

\* the handlers of the mounted page that wait for a request of these kinds
Waiting(page, kinds) ==
    {i \in 1..Len(page.requests) : page.requests[i].kind \in kinds /\ ~page.requests[i].orphan}

\* C29: in ProjectsPage isCreating (isDeleting) is true while a create
\* (delete) request of the page is in flight and false once the handler has
\* completed, whether the request succeeded or threw.  A delete that fails
\* leaves the delete dialog open with projectToDelete retained; a create that
\* fails leaves the create dialog open and navigates to no project.
C29_BusyFlags ==
    [][/\ Waiting(projectsPage', {"createProject", "refetch"}) # {} => projectsPage'.isCreating
       /\ Waiting(projectsPage', {"deleteProject"}) # {} => projectsPage'.isDeleting
       /\ (/\ op'.name \in {"ProjectsPage.refetchResolved", "ProjectsPage.createRejected"}
           /\ ~op'.arg.request.orphan) => ~projectsPage'.isCreating
       /\ (/\ op'.name \in {"ProjectsPage.deleteResolved", "ProjectsPage.deleteRejected"}
           /\ ~op'.arg.request.orphan) => ~projectsPage'.isDeleting
       /\ op'.name = "ProjectsPage.deleteRejected" =>
            /\ projectsPage'.isDeleteDialogOpen = projectsPage.isDeleteDialogOpen
            /\ projectsPage'.projectToDelete = projectsPage.projectToDelete
       /\ op'.name = "ProjectsPage.createRejected" =>
            /\ projectsPage'.showCreateDialog = projectsPage.showCreateDialog
            /\ projectsPage'.projectId = projectsPage.projectId
            /\ Calls(out', "navigate") = <<>>]_vars

\* a delete has failed: the dialog is still open on its project and the
\* confirm button is enabled again
C29_Witness ==
    /\ op.name = "ProjectsPage.deleteRejected"
    /\ ~op.arg.request.orphan
    /\ projectsPage.isDeleteDialogOpen
    /\ projectsPage.projectToDelete = op.arg.request.arg
    /\ ~projectsPage.isDeleting

\* C30: in ProjectsPage handleStartNewChat does nothing when no project is
\* selected; otherwise it sets the active project before it requests the new
\* session.  handleChatClick sets the active project first when one is
\* selected and then requests the session switch.  Either handler navigates
\* to the chat view only in the step in which its session call has completed.
C30_ChatAfterSession ==
    [][LET selected == selectedProject(projectsPage)
       IN  /\ op'.name = "ProjectsPage.handleStartNewChat" =>
                IF selected = NoProject
                THEN out' = <<>> /\ projectsPage' = projectsPage
                ELSE /\ out' = <<ContextCall("setActiveProject", selected),
                                  ContextCall("handleNewSession", TRUE)>>
                     /\ projectsPage'.activeProject = selected
           /\ op'.name = "ProjectsPage.handleChatClick" =>
                /\ out' = (IF selected = NoProject THEN <<>>
                           ELSE <<ContextCall("setActiveProject", selected)>>)
                          \o <<ContextCall("handleSwitchSession", op'.arg)>>
                /\ selected # NoProject => projectsPage'.activeProject = selected
           /\ (\E k \in 1..Len(out') : out'[k] = NavigateCall("chat", EmptyState)) =>
                /\ op'.name = "ProjectsPage.sessionResolved"
                /\ \E i \in 1..Len(projectsPage.requests) :
                      /\ projectsPage.requests[i] = op'.arg.request
                      /\ Len(projectsPage'.requests) = Len(projectsPage.requests) - 1
                /\ sessionId' = op'.arg.request.arg]_vars

\* the chat view after "Start New Chat" of a project: the new session, the
\* project active
C30_Witness ==
    /\ op.name = "ProjectsPage.sessionResolved"
    /\ op.arg.request.kind = "handleNewSession"
    /\ ~op.arg.request.orphan
    /\ projectsPage.activeProject # NoProject
    /\ ~projectsPage.mounted
    /\ sessionId = NoSession

\* C31: handlePromptSelect deletes no character of the draft outside the span
\* from the last "/" before the cursor up to the cursor: at every cursor
\* position, one with no "/" before it included (the span is then empty), the
\* new draft starts with the text before the span and ends with the text
\* after the cursor.
C31_OnlyTheSlashSpanIsReplaced ==
    [][op'.name = "handlePromptSelect" =>
          LET cursorPosition == op'.arg.cursorPosition
              slash == LastSlashBefore(inputValue, cursorPosition)
              kept == IF slash = {} THEN SubSeq(inputValue, 1, cursorPosition)
                      ELSE SubSeq(inputValue, 1, (CHOOSE i \in slash : TRUE) - 1)
              after == SubSeq(inputValue, cursorPosition + 1, Len(inputValue))
          IN  /\ Len(inputValue') >= Len(kept) + Len(after)
              /\ SubSeq(inputValue', 1, Len(kept)) = kept
              /\ SubSeq(inputValue', Len(inputValue') - Len(after) + 1, Len(inputValue')) = after]_vars

\* C32: in every reachable state of the chat input each dialog's flag agrees
\* with its payload: showArtifactForm is true exactly when pendingPasteContent
\* is not null, and showVariableDialog is true exactly when pendingPromptGroup
\* is not null.
C32_FlagsMatchPayloads ==
    /\ showArtifactForm <=> pendingPasteContent # Null
    /\ showVariableDialog <=> pendingPromptGroup # NullGroup

\* both dialogs are open at once, each with its payload
C32_Witness ==
    /\ showArtifactForm /\ pendingPasteContent # Null
    /\ showVariableDialog /\ pendingPromptGroup # NullGroup

\* C33: in PromptsPage, under any interleaving of pin toggles of a group and
\* their responses, once no pin request is in flight the is_pinned the list
\* shows for the group is the pin state of the backend, which toggles it on
\* each PATCH it answers ok and leaves it on a failed one.
C33_PinsSettleToBackend ==
    (/\ promptsPage.mounted
     /\ \A i \in 1..Len(promptsPage.requests) : promptsPage.requests[i].kind # "handleTogglePin")
    => \A k \in 1..Len(promptsPage.promptGroups) :
          promptsPage.promptGroups[k].is_pinned
            = (promptsPage.promptGroups[k].id \in promptsPage.pinnedAtBackend)

\* C34: in PromptsPage, when fetchPromptGroups calls overlap, isLoading is
\* true in every state in which a fetch of the page is in flight, and once
\* all have completed the list shown is the response of the fetch that was
\* started last.
C34_OverlappingFetches ==
    promptsPage.mounted =>
        IF Waiting(promptsPage, {"fetchPromptGroups"}) # {}
        THEN promptsPage.isLoading
        ELSE promptsPage.latestFetch.state = "ok"
                => promptsPage.promptGroups = promptsPage.latestFetch.data

====
